---- MODULE Spec2Model ----
(***************************************************************************)
(* Model of viz::plugins::CppModuleBuilder (CppModuleBuilder.cpp): the     *)
(* toolchain lookup, the compile-command synthesis, the child process run  *)
(* with its two output readers, and the CompilationResult it leaves.       *)
(*                                                                         *)
(* A std::string that holds a path or a compiler name is the non-empty     *)
(* sequence of the pieces between its '/' characters: "" is <<"">>,        *)
(* "g++" is <<"g++">>, "/usr/bin" is <<"", "usr", "bin">>.  s + "/a/b" is  *)
(* s \o <<"a", "b">>.  A null char* (getenv) is the empty sequence.        *)
(*                                                                         *)
(* Child output is a sequence of bytes drawn from {"x", "\n"}.             *)
(***************************************************************************)
EXTENDS Integers, Sequences, FiniteSets, TLC

VARIABLES
    env,          \* file system, environment variables, build definitions
    outExists,    \* a regular file exists at the request's outputFile
    compilerPath, \* CppModuleBuilder::compilerPath
    lastResult,   \* *CppModuleBuilder::lastResult
    pc,           \* "idle" | "running" | "returned": position of compileModule
    proc,         \* the child process and its two pipes
    lineCount,    \* compileModule's local lineCount
    progress,     \* messages handed to progressCallback during the current call
    runnerCalls,  \* executeCommand invocations during the current call
    probes,       \* compilers probed by isCompilerAvailable during the current call
    calls,        \* compileModule calls started so far
    builder,      \* the builder's other fields: oopencalDir, projectRootPath,
                  \* and whether progressCallback is set
    twin,         \* *lastResult and lineCount of the same calls made on a builder
                  \* that differs only in whether progressCallback is set,
                  \* with the same child handing over the same pieces
    descriptor,   \* which CompilationResult object lastResult owns (the objects
                  \* are numbered as compileModule creates them) and whether
                  \* the module it describes has been loaded
    registry,     \* the visualizer factory's mapping from model name to constructor
    adapters,     \* the SceneWidgetVisualizerAdapter objects created so far
    issued,       \* the calls made on the factory and on the adapters, with
                  \* what each returned
    style,        \* a CustomInteractorStyle: m_isPanning, m_lastMouseX,
                  \* m_lastMouseY, and whether its superclass is handling a press
    widget,       \* a SubstateDisplayWidget: its spin boxes, buttons, checkbox
                  \* and colours, and the signals the last event made it emit
    scene,        \* what the style works on: the interactor's event position
                  \* and Shift key, the mouse button, the camera, the cursor
                  \* icon, and what the last handler did
    drawing,      \* a Visualizer's arguments (the matrix, its size, the
                  \* substate's settings) and what its last call produced
    concurrent    \* two threads calling compileModule on one builder: the
                  \* CompilationResult objects, the member lastResult, and
                  \* each caller's position, child and returned result

visualizerVars == <<registry, adapters, issued>>

interactorVars == <<style, scene>>

displayVars == <<widget>>

drawingVars == <<drawing>>

concurrentVars == <<concurrent>>

\* everything but the builder called from one thread
uiVars == <<visualizerVars, interactorVars, displayVars, drawingVars, concurrentVars>>

builderVars == <<env, outExists, compilerPath, lastResult, pc, proc, lineCount,
                 progress, runnerCalls, probes, calls, builder, twin, descriptor>>

exceptVisualizers ==
    <<builderVars, interactorVars, displayVars, drawingVars, concurrentVars>>
exceptInteractor ==
    <<builderVars, visualizerVars, displayVars, drawingVars, concurrentVars>>
exceptDisplay ==
    <<builderVars, visualizerVars, interactorVars, drawingVars, concurrentVars>>
exceptDrawing ==
    <<builderVars, visualizerVars, interactorVars, displayVars, concurrentVars>>
exceptConcurrent ==
    <<builderVars, visualizerVars, interactorVars, displayVars, drawingVars>>

vars == <<env, outExists, compilerPath, lastResult, pc, proc, lineCount,
          progress, runnerCalls, probes, calls, builder, twin, descriptor,
          registry, adapters, issued, style, scene, widget, drawing,
          concurrent>>

----------------------------------------------------------------------------
(* Bounds *)

MaxCalls == 2
MaxUses == 5
MaxCoord == 2
MaxPan == 2
MaxValue == 1
MaxCols == 2
MaxRaceLines == 1
MaxOutLines == 1
MaxErrLines == 1
MaxStreamOutLines == 5
MaxStreamErrLines == 2
MaxPipeLines == 1
MaxPipeCap == 2
MaxThreadErrLines == 1

----------------------------------------------------------------------------
(* Strings *)

EmptyStr == <<"">>
NoPath == <<>>

Min(S) == CHOOSE x \in S : \A y \in S : x <= y

empty(s) == s = EmptyStr

\* the segments that contain ".mount_"
MountSegs == {".mount_OOpenC"}

\* s.find(".mount_") != npos || s.find("/tmp/") != npos
IsAppImagePath(s) ==
    \/ \E i \in 1..Len(s) : s[i] \in MountSegs
    \/ \E i \in 2..(Len(s) - 1) : s[i] = "tmp"

\* s.substr(0, s.find_last_of('/')), the whole of s when it holds no '/'
DirName(s) == IF Len(s) > 1 THEN SubSeq(s, 1, Len(s) - 1) ELSE s

\* two levels above the compiler's directory
MountPoint(cp) == DirName(DirName(DirName(cp)))

----------------------------------------------------------------------------
(* Toolchain lookup *)

AppImagePaths ==
    << <<"..", "usr", "bin", "clang++">>,
       <<"..", "..", "usr", "bin", "clang++">>,
       <<"", "usr", "local", "bin", "clang++">>,
       <<"", "opt", "clang", "bin", "clang++">> >>

\* path + "/clang++" when path is set, non-empty and the file exists
ClangUnder(e, path) ==
    IF path # NoPath /\ ~empty(path) /\ (path \o <<"clang++">>) \in e.files
    THEN path \o <<"clang++">>
    ELSE EmptyStr

getClangToolchainPath(e) ==
    IF ~empty(ClangUnder(e, e.toolchainEnv)) THEN ClangUnder(e, e.toolchainEnv)
    ELSE IF ~empty(ClangUnder(e, e.toolchainDef)) THEN ClangUnder(e, e.toolchainDef)
    ELSE LET hit == {i \in 1..Len(AppImagePaths) : AppImagePaths[i] \in e.files}
         IN  IF hit = {} THEN EmptyStr ELSE AppImagePaths[Min(hit)]

isCompilerAvailable(e, compiler) == compiler \in e.probeOK

Fallbacks == << <<"g++">>, <<"clang++">>, <<"c++">> >>

\* the preferred compiler is handed back when nothing probes successfully
findAvailableCompilerKeepsPreferred(e, preferredCompiler) ==
    IF isCompilerAvailable(e, preferredCompiler) THEN preferredCompiler
    ELSE LET ok == {i \in 1..Len(Fallbacks) :
                        /\ Fallbacks[i] # preferredCompiler
                        /\ isCompilerAvailable(e, Fallbacks[i])}
         IN  IF ok = {} THEN preferredCompiler ELSE Fallbacks[Min(ok)]

\* the fallback list walked from its end
findAvailableCompilerLastFallback(e, preferredCompiler) ==
    IF isCompilerAvailable(e, preferredCompiler) THEN preferredCompiler
    ELSE LET ok == {i \in 1..Len(Fallbacks) :
                        /\ Fallbacks[i] # preferredCompiler
                        /\ isCompilerAvailable(e, Fallbacks[i])}
         IN  IF ok = {} THEN EmptyStr
             ELSE Fallbacks[CHOOSE i \in ok : \A j \in ok : j <= i]

findAvailableCompiler(e, preferredCompiler) ==
    IF isCompilerAvailable(e, preferredCompiler) THEN preferredCompiler
    ELSE LET ok == {i \in 1..Len(Fallbacks) :
                        /\ Fallbacks[i] # preferredCompiler
                        /\ isCompilerAvailable(e, Fallbacks[i])}
         IN  IF ok = {} THEN EmptyStr ELSE Fallbacks[Min(ok)]

\* the isCompilerAvailable calls findAvailableCompiler makes, in order
RECURSIVE FallbackProbes(_, _, _)
FallbackProbes(e, preferredCompiler, i) ==
    IF i > Len(Fallbacks) THEN <<>>
    ELSE IF Fallbacks[i] = preferredCompiler
         THEN FallbackProbes(e, preferredCompiler, i + 1)
    ELSE IF isCompilerAvailable(e, Fallbacks[i]) THEN <<Fallbacks[i]>>
    ELSE <<Fallbacks[i]>> \o FallbackProbes(e, preferredCompiler, i + 1)

ProbesOf(e, preferredCompiler) ==
    IF isCompilerAvailable(e, preferredCompiler) THEN <<preferredCompiler>>
    ELSE <<preferredCompiler>> \o FallbackProbes(e, preferredCompiler, 1)

\* fs::absolute(p).string(), or p when fs::absolute throws
ResolveAbsolute(e, p) ==
    IF p[1] = "" THEN p
    ELSE IF e.cwd = NoPath THEN p
    ELSE e.cwd \o p

\* the bundled clang++ is used only when its --version probe succeeds
AvailableCompilerProbesBundled(e, preferredCompiler) ==
    LET clangFromAppImage == getClangToolchainPath(e)
    IN  IF ~empty(clangFromAppImage) /\ isCompilerAvailable(e, clangFromAppImage)
        THEN ResolveAbsolute(e, clangFromAppImage)
        ELSE findAvailableCompiler(e, preferredCompiler)

\* the compiler compileModule settles on; "" when none
AvailableCompiler(e, preferredCompiler) ==
    LET clangFromAppImage == getClangToolchainPath(e)
    IN  IF ~empty(clangFromAppImage)
        THEN ResolveAbsolute(e, clangFromAppImage)
        ELSE findAvailableCompiler(e, preferredCompiler)

----------------------------------------------------------------------------
(* Compile-command synthesis.  The command is the sequence of its           *)
(* space-separated pieces, each a flag and the string written after it.     *)

T(flag, arg) == [flag |-> flag, arg |-> arg]

\* the user's standard is ignored
detectCppStandardIgnoresUser(e, userStandard) ==
    IF e.cplusplus >= 202302 THEN "c++23"
    ELSE IF e.cplusplus >= 202002 THEN "c++20"
    ELSE IF e.cplusplus >= 201703 THEN "c++17"
    ELSE "c++14"

\* the newest standard the host build knows, from its __cplusplus
detectCppStandard(e, userStandard) ==
    IF userStandard # "" THEN userStandard
    ELSE IF e.cplusplus >= 202302 THEN "c++23"
    ELSE IF e.cplusplus >= 202002 THEN "c++20"
    ELSE IF e.cplusplus >= 201703 THEN "c++17"
    ELSE "c++14"

\* LD_LIBRARY_PATH="<bin>/../lib/clang-libs:<bin>/../lib:$LD_LIBRARY_PATH"
LdLibraryPrefix(cp) ==
    IF IsAppImagePath(cp)
    THEN <<T("LD_LIBRARY_PATH=", DirName(cp) \o <<"..", "lib">>)>>
    ELSE <<>>

IsolationFlags(cp) ==
    IF IsAppImagePath(cp)
    THEN <<T("-nostdinc", NoPath), T("-nostdinc++", NoPath)>>
    ELSE <<>>

\* the bundled system headers, in the order the command lists them
BundledSystemIncludes(cp) ==
    IF IsAppImagePath(cp)
    THEN LET mountPoint == MountPoint(cp)
             appIncludePath == mountPoint \o <<"usr", "include">>
         IN  << T("-isystem", appIncludePath),
                T("-isystem", appIncludePath \o <<"x86_64-linux-gnu">>),
                T("-isystem", appIncludePath \o <<"c++", "v1">>),
                T("-isystem", appIncludePath \o <<"c++">>),
                T("-isystem", appIncludePath \o <<"x86_64-unknown-linux-gnu", "c++", "v1">>),
                T("-isystem", mountPoint \o <<"usr", "lib", "clang", "21", "include">>),
                T("-isystem", mountPoint \o <<"usr", "lib", "gcc", "x86_64-linux-gnu", "14", "include">>),
                T("-isystem", mountPoint \o <<"usr", "lib", "gcc", "x86_64-linux-gnu", "14", "include-fixed">>),
                T("-isystem", mountPoint \o <<"usr", "lib64", "gcc", "x86_64-pc-linux-gnu", "15.2.1", "include">>),
                T("-isystem", mountPoint \o <<"usr", "lib64", "gcc", "x86_64-pc-linux-gnu", "15.2.1", "include-fixed">>) >>
    ELSE <<>>

OOpenCalIncludes(oopencalDir) ==
    IF ~empty(oopencalDir)
    THEN << T("-I", oopencalDir \o <<"OOpenCAL", "base">>), T("-I", oopencalDir) >>
    ELSE <<>>

ProjectIncludes(e, projectRootPath) ==
    IF ~empty(projectRootPath)
    THEN << T("-I", projectRootPath),
            T("-I", projectRootPath \o <<"visualiserProxy">>),
            T("-I", projectRootPath \o <<"config">>) >>
    ELSE IF e.viewerRoot # NoPath /\ ~empty(e.viewerRoot)
    THEN << T("-I", e.viewerRoot),
            T("-I", e.viewerRoot \o <<"visualiserProxy">>),
            T("-I", e.viewerRoot \o <<"config">>),
            T("-I", e.viewerRoot \o <<"utilities">>),
            T("-I", e.viewerRoot \o <<"visualiser">>),
            T("-I", e.viewerRoot \o <<"widgets">>) >>
    ELSE <<>>

SystemVtkInclude == T("-I", <<"", "usr", "include", "vtk-9.1">>)

VtkInclude(cp) ==
    IF IsAppImagePath(cp)
    THEN <<T("-I", MountPoint(cp) \o <<"usr", "include", "vtk-9.1">>)>>
    ELSE <<SystemVtkInclude>>

\* lib/clang/17/include, or the first directory readdir lists under lib/clang
\* when 17/include/stddef.h cannot be opened
ClangIntrinsics(e, cp) ==
    IF IsAppImagePath(cp)
    THEN LET clangLibPath == MountPoint(cp) \o <<"usr", "lib", "clang">>
             version == IF e.clang17 \/ e.clangDir = "" THEN "17" ELSE e.clangDir
         IN  <<T("-isystem", clangLibPath \o <<version, "include">>)>>
    ELSE <<>>

BundledProjectIncludes(cp) ==
    IF IsAppImagePath(cp)
    THEN LET appIncludePath == MountPoint(cp) \o <<"usr", "include">>
         IN  << T("-I", appIncludePath),
                T("-I", appIncludePath \o <<"visualiserProxy">>),
                T("-I", appIncludePath \o <<"config">>),
                T("-I", appIncludePath \o <<"utilities">>),
                T("-I", appIncludePath \o <<"visualiser">>),
                T("-I", appIncludePath \o <<"widgets">>) >>
    ELSE <<>>

VtkCompileFlags == T("VTK_COMPILE_FLAGS", NoPath)

\* the OOpenCAL directories written ahead of the bundled system headers
buildCompileCommandOOpenCalFirst(e, cp, b, sourceFile, outputFile, cppStandard) ==
    LdLibraryPrefix(cp)
    \o << T("compiler", cp), T("-shared", NoPath), T("-fPIC", NoPath),
          T("-std=", <<detectCppStandard(e, cppStandard)>>) >>
    \o IsolationFlags(cp)
    \o OOpenCalIncludes(b.oopencalDir)
    \o BundledSystemIncludes(cp)
    \o ProjectIncludes(e, b.projectRootPath)
    \o VtkInclude(cp)
    \o ClangIntrinsics(e, cp)
    \o BundledProjectIncludes(cp)
    \o << VtkCompileFlags, T("source", sourceFile), T("-o", outputFile) >>

buildCompileCommand(e, cp, b, sourceFile, outputFile, cppStandard) ==
    LdLibraryPrefix(cp)
    \o << T("compiler", cp), T("-shared", NoPath), T("-fPIC", NoPath),
          T("-std=", <<detectCppStandard(e, cppStandard)>>) >>
    \o IsolationFlags(cp)
    \o BundledSystemIncludes(cp)
    \o OOpenCalIncludes(b.oopencalDir)
    \o ProjectIncludes(e, b.projectRootPath)
    \o VtkInclude(cp)
    \o ClangIntrinsics(e, cp)
    \o BundledProjectIncludes(cp)
    \o << VtkCompileFlags, T("source", sourceFile), T("-o", outputFile) >>

----------------------------------------------------------------------------
(* compileModule and executeCommand *)

\* exitCode of a CompilationResult no process has reported to.  The struct is
\* declared in CppModuleBuilder.h; the data model has success <=> (exitCode = 0
\* and the artifact exists) for every result, so the value is not an exit code.
DefaultExitCode == -1

\* what waitpid can report for a child that ran
ExitStatuses == 0..255

\* what executeCommand returns when the process could not be started
LaunchError == -1

\* a progress message every BatchSize counted stdout deliveries
BatchSize == 5

Msg(kind, n, text) == [kind |-> kind, n |-> n, text |-> text]

\* if (progressCallback) progressCallback(m)
Report(log, m) == IF builder.hasCallback THEN Append(log, m) ELSE log

\* the existence check left out
SourceCheckSkipped(e) == FALSE

\* ! fs::exists(sourceFile)
SourceMissing(e) == ~e.srcExists

\* executeCommand without its catch block: the exception leaves compileModule
LaunchFailureUncaught == [pc |-> "threw", exitCode |-> DefaultExitCode]

\* the catch block of executeCommand: the error is logged and -1 returned
LaunchFailure == [pc |-> "returned", exitCode |-> LaunchError]

NewResult(req) ==
    [success |-> FALSE, exitCode |-> DefaultExitCode, stdout |-> <<>>,
     stderr |-> <<>>, compileCommand |-> <<>>,
     sourceFile |-> req.sourceFile, outputFile |-> req.outputFile]

NoProc == [outAll |-> <<>>, errAll |-> <<>>, out |-> <<>>, err |-> <<>>,
           order |-> <<>>, cap |-> 0, readers |-> 1, busy |-> {},
           exit |-> 0, effect |-> "none"]

\* how many of the first w bytes the child writes go to the given stream
Count(order, w, stream) == Cardinality({i \in 1..w : order[i] = stream})

\* the bytes of each stream in its pipe once the child has written w bytes
InPipe(p, w) ==
    [out |-> Count(p.order, w, "out") - (Len(p.outAll) - Len(p.out)),
     err |-> Count(p.order, w, "err") - (Len(p.errAll) - Len(p.err))]

\* how far the child has got: the write that would put more than cap bytes
\* in its pipe blocks
Written(p) ==
    LET blocked == {w \in 1..Len(p.order) :
                       InPipe(p, w).out > p.cap \/ InPipe(p, w).err > p.cap}
    IN  IF blocked = {} THEN Len(p.order) ELSE Min(blocked) - 1

\* what one read of a pipe can return
OutReadable(p) == InPipe(p, Written(p)).out
ErrReadable(p) == InPipe(p, Written(p)).err

\* the readers inside progressCallback once the reader of the given stream
\* has called it.  With one reader thread for both pipes nothing else runs
\* until the callback returns, and the call and its return are one step; with
\* a thread per pipe the other reader runs on during the callback.
Enter(p, stream, called) ==
    IF called /\ p.readers = 2 THEN p.busy \cup {stream} ELSE p.busy

\* get_exit_status: the child has exited and the readers have reached the end
\* of their pipes and have been joined
ReadersDone(p) == p.out = <<>> /\ p.err = <<>> /\ p.busy = {}

\* fs::exists(outputPath) && fs::is_regular_file(outputPath)
moduleExists(exists) == exists

\* success decided by the exit code alone
FinishExitCodeOnly(r, exitCode, exists) ==
    [r EXCEPT !.exitCode = exitCode, !.success = (exitCode = 0)]

\* lines 370-384: success needs exit code 0 and the module on disk
Finish(r, exitCode, exists) ==
    [r EXCEPT !.exitCode = exitCode,
              !.success = (exitCode = 0 /\ moduleExists(exists))]

\* the output file after the child has run
AfterChild(exists, effect) ==
    CASE effect = "create" -> TRUE
      [] effect = "remove" -> FALSE
      [] OTHER -> exists

\* the messages up to the toolchain decision (lines 291-305)
ToolchainReports ==
    LET p1 == Report(<<>>, Msg("checking", 0, <<>>))
        clang == getClangToolchainPath(env)
    IN  IF ~empty(clang) THEN Report(p1, Msg("using", 0, clang)) ELSE p1

\* the probes made by the toolchain decision (none for a bundled clang)
ToolchainProbes ==
    IF ~empty(getClangToolchainPath(env)) THEN <<>>
    ELSE ProbesOf(env, compilerPath)

CanCall == pc \in {"idle", "returned"} /\ calls < MaxCalls

\* before the first call lastResult owns no object
NoDescriptor == [object |-> 0, loaded |-> "no"]

\* line 278 left out: the call writes into the object lastResult already owns
SameDescriptor(d) == [object |-> IF d.object = 0 THEN 1 ELSE d.object, loaded |-> "no"]

\* line 278: every call makes a new CompilationResult, which replaces the
\* one lastResult owned
NewDescriptor(d) == [object |-> d.object + 1, loaded |-> "no"]

\* lines 284-289: the result when the source file does not exist
SourceMissingResult(req) ==
    [NewResult(req) EXCEPT !.success = FALSE,
                           !.stderr = <<"Source file does not exist: ">>]

\* lines 326-334: the result when no compiler is found
NoCompilerResult(req, preferred) ==
    [NewResult(req) EXCEPT
        !.success = FALSE,
        !.stderr = <<"No C++ compiler found. Please install clang++, g++, or c++.">>,
        !.compileCommand = <<T("compiler", preferred), T("(not found)", NoPath)>>]

\* the stdout sink appends the piece only when a progress callback is set
StdoutSinkTextIfCallback(h, r, lc, line) ==
    LET counted == h /\ line # <<>>
        n == IF counted THEN lc + 1 ELSE lc
    IN  [result |-> IF h THEN [r EXCEPT !.stdout = @ \o line \o <<"\n">>] ELSE r,
         lineCount |-> n,
         called |-> counted /\ n % BatchSize = 0]

\* the stdout sink assigns the piece to the result's text instead of appending
StdoutSinkOverwrites(h, r, lc, line) ==
    LET counted == h /\ line # <<>>
        n == IF counted THEN lc + 1 ELSE lc
    IN  [result |-> [r EXCEPT !.stdout = line \o <<"\n">>],
         lineCount |-> n,
         called |-> counted /\ n % BatchSize = 0]

\* lines 357-362, h being whether progressCallback is set: the result and the
\* line count after the stdout sink is handed line, and whether it calls the
\* callback
StdoutSink(h, r, lc, line) ==
    LET counted == h /\ line # <<>>
        n == IF counted THEN lc + 1 ELSE lc
    IN  [result |-> [r EXCEPT !.stdout = @ \o line \o <<"\n">>],
         lineCount |-> n,
         called |-> counted /\ n % BatchSize = 0]

\* lines 363-368: the same for the stderr sink
StderrSink(h, r, line) ==
    [result |-> [r EXCEPT !.stderr = @ \o line \o <<"\n">>],
     called |-> h /\ line # <<>>]

\* lines 279-289: the source file does not exist
CompileSourceMissing ==
    /\ CanCall
    /\ SourceMissing(env)
    /\ lastResult' = SourceMissingResult(env.request)
    /\ twin' = [result |-> SourceMissingResult(env.request), lineCount |-> 0]
    /\ pc' = "returned"
    /\ calls' = calls + 1
    /\ progress' = <<>>
    /\ runnerCalls' = 0
    /\ probes' = <<>>
    /\ lineCount' = 0
    /\ proc' = NoProc
    /\ UNCHANGED <<env, outExists, compilerPath, builder>>
    /\ descriptor' = NewDescriptor(descriptor)
    /\ UNCHANGED uiVars

\* lines 279-334: no compiler is found
CompileNoCompiler ==
    /\ CanCall
    /\ ~SourceMissing(env)
    /\ empty(AvailableCompiler(env, compilerPath))
    /\ lastResult' = NoCompilerResult(env.request, compilerPath)
    /\ twin' = [result |-> NoCompilerResult(env.request, compilerPath), lineCount |-> 0]
    /\ progress' = Report(ToolchainReports, Msg("nocompiler", 0, <<>>))
    /\ probes' = ToolchainProbes
    /\ pc' = "returned"
    /\ calls' = calls + 1
    /\ runnerCalls' = 0
    /\ lineCount' = 0
    /\ proc' = NoProc
    /\ UNCHANGED <<env, outExists, compilerPath, builder>>
    /\ descriptor' = NewDescriptor(descriptor)
    /\ UNCHANGED uiVars

\* lines 336-351: the state when executeCommand is entered
Prepared ==
    LET avail == AvailableCompiler(env, compilerPath)
        req == env.request
    IN  [compiler |-> avail,
         result |-> [NewResult(req) EXCEPT !.compileCommand =
                        buildCompileCommand(env, avail, builder, req.sourceFile,
                                            req.outputFile, req.cppStandard)],
         progress |-> Report(Report(ToolchainReports, Msg("preparing", 0, <<>>)),
                             Msg("compiling", 0, <<>>))]

\* lines 279-386 when the Process constructor throws: executeCommand returns -1
CompileLaunchFailed ==
    /\ CanCall
    /\ ~SourceMissing(env)
    /\ ~empty(AvailableCompiler(env, compilerPath))
    /\ ~env.child.launch
    /\ compilerPath' = Prepared.compiler
    /\ lastResult' = Finish(Prepared.result, LaunchFailure.exitCode, outExists)
    /\ twin' = [result |-> Finish(Prepared.result, LaunchFailure.exitCode, outExists),
                lineCount |-> 0]
    /\ progress' = Prepared.progress
    /\ probes' = ToolchainProbes
    /\ runnerCalls' = 1
    /\ pc' = LaunchFailure.pc
    /\ calls' = calls + 1
    /\ lineCount' = 0
    /\ proc' = NoProc
    /\ UNCHANGED <<env, outExists, builder>>
    /\ descriptor' = NewDescriptor(descriptor)
    /\ UNCHANGED uiVars

\* lines 279-357 and 641-657: the child process is started
CompileLaunched ==
    /\ CanCall
    /\ ~SourceMissing(env)
    /\ ~empty(AvailableCompiler(env, compilerPath))
    /\ env.child.launch
    /\ compilerPath' = Prepared.compiler
    /\ lastResult' = Prepared.result
    /\ twin' = [result |-> Prepared.result, lineCount |-> 0]
    /\ progress' = Prepared.progress
    /\ probes' = ToolchainProbes
    /\ runnerCalls' = 1
    /\ pc' = "running"
    /\ calls' = calls + 1
    /\ lineCount' = 0
    /\ proc' = [outAll |-> env.child.out, errAll |-> env.child.err,
                out |-> env.child.out, err |-> env.child.err,
                order |-> env.child.order, cap |-> env.child.cap,
                readers |-> env.child.readers, busy |-> {},
                exit |-> env.child.exit, effect |-> env.child.effect]
    /\ UNCHANGED <<env, outExists, builder>>
    /\ descriptor' = NewDescriptor(descriptor)
    /\ UNCHANGED uiVars

\* lines 357-362 and 646-651: the stdout reader hands over the bytes of one read
StdoutChunk ==
    /\ pc = "running"
    /\ "out" \notin proc.busy
    /\ \E n \in 1..OutReadable(proc) :
        LET line == SubSeq(proc.out, 1, n)
            sink == StdoutSink(builder.hasCallback, lastResult, lineCount, line)
            other == StdoutSink(~builder.hasCallback, twin.result, twin.lineCount, line)
        IN  /\ lastResult' = sink.result
            /\ lineCount' = sink.lineCount
            /\ progress' = IF sink.called
                           THEN Append(progress, Msg("stdout", sink.lineCount, <<>>))
                           ELSE progress
            /\ proc' = [proc EXCEPT !.out = SubSeq(proc.out, n + 1, Len(proc.out)),
                                    !.busy = Enter(proc, "out", sink.called)]
            /\ twin' = [result |-> other.result, lineCount |-> other.lineCount]
    /\ UNCHANGED <<env, outExists, compilerPath, pc, runnerCalls, probes, calls, builder>>
    /\ UNCHANGED descriptor
    /\ UNCHANGED uiVars

\* stderr is read only once stdout has been read to its end
StderrChunkAfterStdout ==
    /\ pc = "running"
    /\ "err" \notin proc.busy
    /\ proc.out = <<>>
    /\ \E n \in 1..ErrReadable(proc) :
        LET line == SubSeq(proc.err, 1, n)
            sink == StderrSink(builder.hasCallback, lastResult, line)
            other == StderrSink(~builder.hasCallback, twin.result, line)
        IN  /\ lastResult' = sink.result
            /\ progress' = IF sink.called
                           THEN Append(progress, Msg("stderr", 0, line))
                           ELSE progress
            /\ proc' = [proc EXCEPT !.err = SubSeq(proc.err, n + 1, Len(proc.err)),
                                    !.busy = Enter(proc, "err", sink.called)]
            /\ twin' = [twin EXCEPT !.result = other.result]
    /\ UNCHANGED <<env, outExists, compilerPath, pc, lineCount, runnerCalls, probes,
                   calls, builder>>
    /\ UNCHANGED descriptor
    /\ UNCHANGED uiVars

\* lines 363-368 and 652-657: the stderr reader hands over the bytes of one read
StderrChunk ==
    /\ pc = "running"
    /\ "err" \notin proc.busy
    /\ \E n \in 1..ErrReadable(proc) :
        LET line == SubSeq(proc.err, 1, n)
            sink == StderrSink(builder.hasCallback, lastResult, line)
            other == StderrSink(~builder.hasCallback, twin.result, line)
        IN  /\ lastResult' = sink.result
            /\ progress' = IF sink.called
                           THEN Append(progress, Msg("stderr", 0, line))
                           ELSE progress
            /\ proc' = [proc EXCEPT !.err = SubSeq(proc.err, n + 1, Len(proc.err)),
                                    !.busy = Enter(proc, "err", sink.called)]
            /\ twin' = [twin EXCEPT !.result = other.result]
    /\ UNCHANGED <<env, outExists, compilerPath, pc, lineCount, runnerCalls, probes,
                   calls, builder>>
    /\ UNCHANGED descriptor
    /\ UNCHANGED uiVars

\* lines 361 and 367: progressCallback returns to the reader that called it
CallbackReturn ==
    /\ pc = "running"
    /\ \E stream \in proc.busy : proc' = [proc EXCEPT !.busy = @ \ {stream}]
    /\ UNCHANGED <<env, outExists, compilerPath, lastResult, pc, lineCount, progress,
                   runnerCalls, probes, calls, builder, twin>>
    /\ UNCHANGED descriptor
    /\ UNCHANGED uiVars

\* lines 659 and 370-386: the child has exited and both pipes are drained
ProcessExit ==
    /\ pc = "running"
    /\ ReadersDone(proc)
    /\ outExists' = AfterChild(outExists, proc.effect)
    /\ lastResult' = Finish(lastResult, proc.exit, outExists')
    /\ twin' = [twin EXCEPT !.result = Finish(@, proc.exit, outExists')]
    /\ pc' = "returned"
    /\ UNCHANGED <<env, compilerPath, proc, lineCount, progress, runnerCalls, probes,
                   calls, builder>>
    /\ UNCHANGED descriptor
    /\ UNCHANGED uiVars

Next ==
    \/ CompileSourceMissing
    \/ CompileNoCompiler
    \/ CompileLaunchFailed
    \/ CompileLaunched
    \/ StdoutChunk
    \/ StderrChunk
    \/ CallbackReturn
    \/ ProcessExit

\* the loader maps the module of a successful compilation into the process
\* and resolves its entry point, or fails to
CanLoad == pc = "returned" /\ lastResult.success /\ descriptor.loaded = "no"

LoadSucceeds ==
    /\ CanLoad
    /\ descriptor' = [descriptor EXCEPT !.loaded = "Loaded"]
    /\ UNCHANGED <<env, outExists, compilerPath, lastResult, pc, proc, lineCount,
                   progress, runnerCalls, probes, calls, builder, twin>>
    /\ UNCHANGED uiVars

LoadFails ==
    /\ CanLoad
    /\ descriptor' = [descriptor EXCEPT !.loaded = "LoadFailed"]
    /\ UNCHANGED <<env, outExists, compilerPath, lastResult, pc, proc, lineCount,
                   progress, runnerCalls, probes, calls, builder, twin>>
    /\ UNCHANGED uiVars

NextLifecycle ==
    \/ Next
    \/ LoadSucceeds
    \/ LoadFails

----------------------------------------------------------------------------
(* SceneWidgetVisualizerAdapter and the factory that creates adapters by
   model name.  The builder and the visualizers share no state, so each is
   explored with the other at rest. *)

ModelNames == {"ballcell", "sciddicaT"}

\* the cell types an adapter can be instantiated with
Cells == {"BallCell", "SciddicaTCell"}

\* m_impl.p, the wrapped implementation's own matrix
P == "m_impl.p"

\* what a call returns
Void == [kind |-> "void", value |-> <<>>]
UnknownModel == [kind |-> "UnknownModel", value |-> <<>>]
Returned1(kind, v) == [kind |-> kind, value |-> <<v>>]
StepsReturned(steps) == [kind |-> "steps", value |-> steps]

\* SceneWidgetVisualizerTemplate<Cell> m_impl: the calls it has received on
\* itself, on its modelReader and on its visualiser
NewImpl(cell) == [cell |-> cell, calls |-> <<>>]

Receive(impl, part, op, args, returns) ==
    [impl EXCEPT !.calls =
        Append(@, [part |-> part, op |-> op, args |-> args, returns |-> returns])]

\* lines 46-48
SceneWidgetVisualizerAdapter(cell, modelName) ==
    [m_modelName |-> modelName, m_impl |-> NewImpl(cell)]

\* lines 50-53
initMatrix(a, dimX, dimY) ==
    [a EXCEPT !.m_impl = Receive(@, "m_impl", "initMatrix", <<dimX, dimY>>, Void)]

\* lines 55-58, with the two node counts exchanged
prepareStageSwapped(a, nNodeX, nNodeY) ==
    [a EXCEPT !.m_impl =
        Receive(@, "modelReader", "prepareStage", <<nNodeY, nNodeX>>, Void)]

\* lines 55-58
prepareStage(a, nNodeX, nNodeY) ==
    [a EXCEPT !.m_impl =
        Receive(@, "modelReader", "prepareStage", <<nNodeX, nNodeY>>, Void)]

\* lines 60-63
clearStage(a) ==
    [a EXCEPT !.m_impl = Receive(@, "modelReader", "clearStage", <<>>, Void)]

\* lines 65-68
readStepsOffsetsForAllNodesFromFiles(a, nNodeX, nNodeY, filename) ==
    [a EXCEPT !.m_impl =
        Receive(@, "modelReader", "readStepsOffsetsForAllNodesFromFiles",
                <<nNodeX, nNodeY, filename>>, Void)]

\* lines 70-73
readStageStateFromFilesForStep(a, sp, lines) ==
    [a EXCEPT !.m_impl =
        Receive(@, "modelReader", "readStageStateFromFilesForStep",
                <<P, sp, lines>>, Void)]

\* lines 75-78
drawWithVTK(a, nRows, nCols, renderer, gridActor) ==
    [a EXCEPT !.m_impl =
        Receive(@, "visualiser", "drawWithVTK",
                <<P, nRows, nCols, renderer, gridActor>>, Void)]

\* lines 80-83
refreshWindowsVTK(a, nRows, nCols, gridActor) ==
    [a EXCEPT !.m_impl =
        Receive(@, "visualiser", "refreshWindowsVTK",
                <<P, nRows, nCols, gridActor>>, Void)]

\* lines 85-88: a reference to the implementation's visualiser
getVisualizer(a) == Returned1("visualiser", "m_impl.visualiser")

\* lines 90-93, reporting the same name for every adapter
getModelNameOfFirst(a) == Returned1("name", adapters[1].m_modelName)

\* lines 90-93
getModelName(a) == Returned1("name", a.m_modelName)

\* lines 95-98: the reader is asked and answers with steps
availableSteps(a, steps) ==
    [a EXCEPT !.m_impl =
        Receive(@, "modelReader", "availableSteps", <<>>, StepsReturned(steps))]

\* the factory: a constructor builds an adapter under the name it was
\* registered with
NoCtor == [builds |-> "", cell |-> ""]
Ctor(modelName, cell) == [builds |-> modelName, cell |-> cell]
NoModels == [n \in ModelNames |-> NoCtor]

registerModel(reg, modelName, ctor) == [reg EXCEPT ![modelName] = ctor]
isRegistered(reg, modelName) == reg[modelName] # NoCtor
Construct(ctor) == SceneWidgetVisualizerAdapter(ctor.cell, ctor.builds)

\* the arguments the calls are made with
Dims == {<<2, 3>>}
Filenames == {"offsets.txt"}
StepLists == {<<>>, <<0, 1>>}

CanUse == Len(issued) < MaxUses

Issue(on, op, args, result) ==
    issued' = Append(issued, [on |-> on, op |-> op, args |-> args, result |-> result])

\* a call on adapter h, made on an implementation of the cell type that is
\* registered under the adapter's name at the time of the call
UseRegistered(h, op, args, result, a2) ==
    /\ CanUse
    /\ adapters' = [adapters EXCEPT
                       ![h] = [a2 EXCEPT !.m_impl.cell = registry[a2.m_modelName].cell]]
    /\ Issue(h, op, args, result)
    /\ UNCHANGED registry
    /\ UNCHANGED exceptVisualizers

\* a call on adapter h that leaves the adapter as a2
Use(h, op, args, result, a2) ==
    /\ CanUse
    /\ adapters' = [adapters EXCEPT ![h] = a2]
    /\ Issue(h, op, args, result)
    /\ UNCHANGED registry
    /\ UNCHANGED exceptVisualizers

Register ==
    /\ CanUse
    /\ \E n \in ModelNames, cell \in Cells :
          /\ registry' = registerModel(registry, n, Ctor(n, cell))
          /\ Issue(0, "register", <<n, cell>>, Void)
    /\ UNCHANGED adapters
    /\ UNCHANGED exceptVisualizers

Create ==
    /\ CanUse
    /\ \E n \in ModelNames :
          /\ isRegistered(registry, n)
          /\ adapters' = Append(adapters, Construct(registry[n]))
          /\ Issue(0, "create", <<n>>, Returned1("handle", Len(adapters) + 1))
    /\ UNCHANGED registry
    /\ UNCHANGED exceptVisualizers

CreateUnknown ==
    /\ CanUse
    /\ \E n \in ModelNames :
          /\ ~isRegistered(registry, n)
          /\ Issue(0, "create", <<n>>, UnknownModel)
    /\ UNCHANGED <<registry, adapters>>
    /\ UNCHANGED exceptVisualizers

InitMatrix ==
    \E h \in DOMAIN adapters, d \in Dims :
        Use(h, "initMatrix", d, Void, initMatrix(adapters[h], d[1], d[2]))

PrepareStage ==
    \E h \in DOMAIN adapters, d \in Dims :
        Use(h, "prepareStage", d, Void, prepareStage(adapters[h], d[1], d[2]))

ClearStage ==
    \E h \in DOMAIN adapters :
        Use(h, "clearStage", <<>>, Void, clearStage(adapters[h]))

ReadStepsOffsets ==
    \E h \in DOMAIN adapters, d \in Dims, f \in Filenames :
        Use(h, "readStepsOffsetsForAllNodesFromFiles", <<d[1], d[2], f>>, Void,
            readStepsOffsetsForAllNodesFromFiles(adapters[h], d[1], d[2], f))

ReadStageState ==
    \E h \in DOMAIN adapters :
        Use(h, "readStageStateFromFilesForStep", <<"sp", "lines">>, Void,
            readStageStateFromFilesForStep(adapters[h], "sp", "lines"))

DrawWithVTK ==
    \E h \in DOMAIN adapters, d \in Dims :
        Use(h, "drawWithVTK", <<d[1], d[2], "renderer", "gridActor">>, Void,
            drawWithVTK(adapters[h], d[1], d[2], "renderer", "gridActor"))

RefreshWindowsVTK ==
    \E h \in DOMAIN adapters, d \in Dims :
        Use(h, "refreshWindowsVTK", <<d[1], d[2], "gridActor">>, Void,
            refreshWindowsVTK(adapters[h], d[1], d[2], "gridActor"))

GetVisualizer ==
    \E h \in DOMAIN adapters :
        Use(h, "getVisualizer", <<>>, getVisualizer(adapters[h]), adapters[h])

GetModelName ==
    \E h \in DOMAIN adapters :
        Use(h, "getModelName", <<>>, getModelName(adapters[h]), adapters[h])

AvailableSteps ==
    \E h \in DOMAIN adapters, steps \in StepLists :
        Use(h, "availableSteps", <<>>, StepsReturned(steps),
            availableSteps(adapters[h], steps))

NextVisualizers ==
    \/ Register
    \/ Create
    \/ CreateUnknown
    \/ InitMatrix
    \/ PrepareStage
    \/ ClearStage
    \/ ReadStepsOffsets
    \/ ReadStageState
    \/ DrawWithVTK
    \/ RefreshWindowsVTK
    \/ GetVisualizer
    \/ GetModelName
    \/ AvailableSteps

----------------------------------------------------------------------------
(* SubstateDisplayWidget: minimum and maximum, colours, buttons *)

\* part_000 line 816, and the spin boxes' maximum, line 823
emptyValue == 0 - 1000000000
SpinMaximum == 1000000000

\* a double: a number or NaN
Num(v) == [nan |-> FALSE, v |-> v]
NaN == [nan |-> TRUE, v |-> 0]

\* QDoubleSpinBox::setValue keeps the value within the box's range
Clamp(v) == IF v < emptyValue THEN emptyValue ELSE IF v > SpinMaximum THEN SpinMaximum ELSE v

\* lines 1013-1021
hasMinValue(w) == w.minSpin # emptyValue
hasMaxValue(w) == w.maxSpin # emptyValue

\* lines 961-968, 978-985
getMinValue(w) == IF w.minSpin = emptyValue THEN NaN ELSE Num(w.minSpin)
getMaxValue(w) == IF w.maxSpin = emptyValue THEN NaN ELSE Num(w.maxSpin)

\* a signal leaves the widget; what is kept of it is its name, its string
\* argument and the colours the widget holds at that moment
Emit(w, signal, arg) ==
    [w EXCEPT !.signals = Append(@, [signal |-> signal, arg |-> arg,
                                     minColor |-> w.m_minColor,
                                     maxColor |-> w.m_maxColor])]

\* lines 1028-1051, enabling the buttons as soon as one of the two is set
updateButtonStateEither(w) ==
    LET isEnabled == hasMinValue(w) \/ hasMaxValue(w)
    IN  Emit([w EXCEPT !.use3dEnabled = isEnabled, !.colorringEnabled = isEnabled],
             "minMaxValuesChanged", "")

\* lines 1028-1051
updateButtonState(w) ==
    LET isEnabled == hasMinValue(w) /\ hasMaxValue(w)
    IN  Emit([w EXCEPT !.use3dEnabled = isEnabled, !.colorringEnabled = isEnabled],
             "minMaxValuesChanged", "")

\* the spin boxes announce a value only when it changes; lines 882-886
\* connect the announcement to updateButtonState
SetMinSpin(w, v) ==
    IF Clamp(v) = w.minSpin THEN w ELSE updateButtonState([w EXCEPT !.minSpin = Clamp(v)])
SetMaxSpin(w, v) ==
    IF Clamp(v) = w.maxSpin THEN w ELSE updateButtonState([w EXCEPT !.maxSpin = Clamp(v)])

\* lines 970-976, 987-993
setMinValue(w, value) == SetMinSpin(w, IF value.nan THEN emptyValue ELSE value.v)
setMaxValue(w, value) == SetMaxSpin(w, IF value.nan THEN emptyValue ELSE value.v)

\* lines 1149-1161
onUseSubstateColorring(w) ==
    IF w.checked
    THEN Emit(w, "useSubstateColorringRequested", w.fieldName)
    ELSE Emit(w, "useSubstateColorringRequested", "")

RefreshIfBothColors(w) ==
    IF w.m_minColor # "" /\ w.m_maxColor # ""
    THEN Emit(w, "visualizationRefreshRequested", "")
    ELSE w

\* lines 1176-1200
setMinColor(w, color) ==
    RefreshIfBothColors(
        Emit(updateButtonState([w EXCEPT !.m_minColor = color]), "colorsChanged", ""))
setMaxColor(w, color) ==
    RefreshIfBothColors(
        Emit(updateButtonState([w EXCEPT !.m_maxColor = color]), "colorsChanged", ""))

\* lines 1224-1228
onClearColorsClicked(w) == setMaxColor(setMinColor(w, ""), "")

\* lines 870-880: the two slots connected to the clear button's clicked
\* signal run in the order they were connected
clearColorsButtonClicked(w) == onClearColorsClicked(onUseSubstateColorring(w))

\* lines 829-850, 857-904: the widget after construction
NewWidget ==
    [updateButtonState(
        [fieldName |-> "h", minSpin |-> emptyValue, maxSpin |-> emptyValue,
         use3dEnabled |-> TRUE, colorringEnabled |-> TRUE, checked |-> FALSE,
         m_minColor |-> "", m_maxColor |-> "", signals |-> <<>>, event |-> "new"])
     EXCEPT !.signals = <<>>]

\* the values given to setMinValue / setMaxValue, and those a user can type
Doubles == {NaN} \cup {Num(v) : v \in {2 * emptyValue, emptyValue} \cup 0..MaxValue}
Typed == {emptyValue} \cup 0..MaxValue
Colors == {"#ff0000", "#0000ff"}

\* the widget after an event that found it with no signals kept and
\* leaves it as w
Handled(event, w) == [w EXCEPT !.event = event]

Fresh == [widget EXCEPT !.signals = <<>>]

SetMinValue ==
    /\ \E d \in Doubles : widget' = Handled("setMinValue", setMinValue(Fresh, d))
    /\ UNCHANGED exceptDisplay

SetMaxValue ==
    /\ \E d \in Doubles : widget' = Handled("setMaxValue", setMaxValue(Fresh, d))
    /\ UNCHANGED exceptDisplay

\* the user types a value into a spin box
EditMin ==
    /\ \E v \in Typed : widget' = Handled("editMin", SetMinSpin(Fresh, v))
    /\ UNCHANGED exceptDisplay

EditMax ==
    /\ \E v \in Typed : widget' = Handled("editMax", SetMaxSpin(Fresh, v))
    /\ UNCHANGED exceptDisplay

\* lines 1202-1222: a colour is chosen in the dialog, or the dialog is
\* cancelled
MinColorClicked ==
    /\ \/ \E c \in Colors : widget' = Handled("minColor", setMinColor(Fresh, c))
       \/ widget' = Handled("minColor", Fresh)
    /\ UNCHANGED exceptDisplay

MaxColorClicked ==
    /\ \/ \E c \in Colors : widget' = Handled("maxColor", setMaxColor(Fresh, c))
       \/ widget' = Handled("maxColor", Fresh)
    /\ UNCHANGED exceptDisplay

ClearColorsClicked ==
    /\ widget' = Handled("clearColors", clearColorsButtonClicked(Fresh))
    /\ UNCHANGED exceptDisplay

\* lines 859-861: the button can be clicked when it is enabled
Use3dClicked ==
    /\ widget.use3dEnabled
    /\ widget' = Handled("use3d", Emit(Fresh, "use3rdDimensionRequested", widget.fieldName))
    /\ UNCHANGED exceptDisplay

\* lines 864-868: the checkbox can be clicked when it is enabled
ColorringClicked ==
    /\ widget.colorringEnabled
    /\ widget' = Handled("colorring",
                         onUseSubstateColorring([Fresh EXCEPT !.checked = ~widget.checked]))
    /\ UNCHANGED exceptDisplay

\* lines 1168-1174: signals blocked
SetUse2DChecked ==
    /\ \E b \in BOOLEAN : widget' = Handled("setUse2DChecked", [Fresh EXCEPT !.checked = b])
    /\ UNCHANGED exceptDisplay

NextDisplay ==
    \/ SetMinValue
    \/ SetMaxValue
    \/ EditMin
    \/ EditMax
    \/ MinColorClicked
    \/ MaxColorClicked
    \/ ClearColorsClicked
    \/ Use3dClicked
    \/ ColorringClicked
    \/ SetUse2DChecked

----------------------------------------------------------------------------
(* Visualizer: cell colours, the 2D grid, the 3D quad mesh *)

\* a double that is a ratio of two integers
Frac(num, den) == [num |-> num, den |-> den]

Color(r, g, b, a) == [r |-> r, g |-> g, b |-> b, a |-> a]

\* std::optional<Color>
NoColor == [has |-> FALSE, color |-> Color(0, 0, 0, 0)]
SomeColor(c) == [has |-> TRUE, color |-> c]

\* part_000 line 175: declared here, defined elsewhere; one fixed colour
flatSceneBackgroundColor == Color(200, 200, 200, 255)

\* lines 50-58: a channel above 1 is taken to be on the 0-255 scale
toUnitColor(channel) ==
    IF channel > 1 THEN Frac(channel, 255) ELSE Frac(channel, 1)

\* a lookup table entry SetTableValue has not been called for
Unset == [r |-> Frac(0 - 1, 1), g |-> Frac(0 - 1, 1), b |-> Frac(0 - 1, 1)]

\* std::stoi(_, nullptr, 16) on one character
HexDigit(ch) ==
    CASE ch = "0" -> 0 [] ch = "1" -> 1 [] ch = "2" -> 2 [] ch = "3" -> 3
      [] ch = "4" -> 4 [] ch = "5" -> 5 [] ch = "6" -> 6 [] ch = "7" -> 7
      [] ch = "8" -> 8 [] ch = "9" -> 9
      [] ch \in {"a", "A"} -> 10 [] ch \in {"b", "B"} -> 11
      [] ch \in {"c", "C"} -> 12 [] ch \in {"d", "D"} -> 13
      [] ch \in {"e", "E"} -> 14 [] ch \in {"f", "F"} -> 15

\* lines 398-405: a string is the sequence of its characters
parseHexColor(hex) ==
    IF Len(hex) # 7 \/ hex[1] # "#"
    THEN <<0, 0, 0>>
    ELSE <<16 * HexDigit(hex[2]) + HexDigit(hex[3]),
           16 * HexDigit(hex[4]) + HexDigit(hex[5]),
           16 * HexDigit(hex[6]) + HexDigit(hex[7])>>

\* lines 411-413: static_cast<int>(minC + (maxC - minC) * normalized) with
\* normalized = (value - minVal) / (maxVal - minVal) strictly between 0 and 1,
\* so the sum lies between the two channels and the cast rounds it down;
\* line 415: the cast to std::uint8_t
Interpolate(minC, maxC, value, minVal, maxVal) ==
    ((minC * (maxVal - minVal) + (maxC - minC) * (value - minVal))
        \div (maxVal - minVal)) % 256

\* a null SubstateInfo pointer
NoInfo ==
    [given |-> FALSE, minValue |-> NaN, maxValue |-> NaN, noValueEnabled |-> FALSE,
     noValue |-> NaN, minColor |-> <<>>, maxColor |-> <<>>]

\* lines 365-437.  A cell's stringEncoding is a number (parses) or a text
\* std::stod throws on; its outputValue is the colour own.
calculateCellColorOptional(row, column, p, substateInfo) ==
    LET cell == p[<<row, column>>]
        value == cell.value
        minVal == substateInfo.minValue
        maxVal == substateInfo.maxValue
        lo == parseHexColor(substateInfo.minColor)
        hi == parseHexColor(substateInfo.maxColor)
    IN  IF substateInfo.given /\ substateInfo.minColor # <<>>
                              /\ substateInfo.maxColor # <<>>
        THEN IF ~cell.parses THEN NoColor
             ELSE IF minVal.nan \/ maxVal.nan THEN NoColor
             ELSE IF /\ substateInfo.noValueEnabled
                     /\ ~substateInfo.noValue.nan
                     /\ value = substateInfo.noValue.v
                  THEN NoColor
             ELSE IF value <= minVal.v \/ value >= maxVal.v THEN NoColor
             ELSE SomeColor(Color(Interpolate(lo[1], hi[1], value, minVal.v, maxVal.v),
                                  Interpolate(lo[2], hi[2], value, minVal.v, maxVal.v),
                                  Interpolate(lo[3], hi[3], value, minVal.v, maxVal.v),
                                  255))
        ELSE SomeColor(cell.own)

\* lines 352-362: the first substate that gives a colour
RECURSIVE FirstColor(_, _, _, _, _)
FirstColor(row, column, p, colorSubstateInfos, i) ==
    IF i > Len(colorSubstateInfos) THEN flatSceneBackgroundColor
    ELSE LET optionalColor ==
                 calculateCellColorOptional(row, column, p, colorSubstateInfos[i])
         IN  IF optionalColor.has THEN optionalColor.color
             ELSE FirstColor(row, column, p, colorSubstateInfos, i + 1)

\* lines 335-363
calculateCellColor(row, column, p, colorSubstateInfos) ==
    IF colorSubstateInfos = <<>>
    THEN LET optionalColor == calculateCellColorOptional(row, column, p, NoInfo)
         IN  IF optionalColor.has THEN optionalColor.color
             ELSE flatSceneBackgroundColor
    ELSE FirstColor(row, column, p, colorSubstateInfos, 1)

\* for (row = 0; row < nRows; row++) for (col = 0; col < nCols; col++):
\* the iterations in the order they run
LoopOrder(nRows, nCols) ==
    [k \in 1..(nRows * nCols) |-> <<(k - 1) \div nCols, (k - 1) % nCols>>]

\* lines 244-259: the table after the iterations from the k-th on
RECURSIVE buidColorFrom(_, _, _, _, _, _)
buidColorFrom(lut, nCols, nRows, p, colorSubstateInfos, k) ==
    IF k > nRows * nCols THEN lut
    ELSE LET r == LoopOrder(nRows, nCols)[k][1]
             c == LoopOrder(nRows, nCols)[k][2]
             color == calculateCellColor(r, c, p, colorSubstateInfos)
             index == (nRows - 1 - r) * nCols + c
             entry == [r |-> toUnitColor(color.r), g |-> toUnitColor(color.g),
                       b |-> toUnitColor(color.b)]
         IN  buidColorFrom(IF index \in DOMAIN lut
                           THEN [lut EXCEPT ![index] = entry] ELSE lut,
                           nCols, nRows, p, colorSubstateInfos, k + 1)

buidColor(lut, nCols, nRows, p, colorSubstateInfos) ==
    buidColorFrom(lut, nCols, nRows, p, colorSubstateInfos, 1)

\* line 191, with the row left as it is
colorIndexUnflipped(row, col, nRows, nCols) == row * nCols + col

\* line 191
colorIndex(row, col, nRows, nCols) == (nRows - 1 - row) * nCols + col

\* lines 186-194: the scalars after the iterations from the k-th on
RECURSIVE SetValuesFrom(_, _, _, _)
SetValuesFrom(pointValues, nRows, nCols, k) ==
    IF k > nRows * nCols THEN pointValues
    ELSE LET row == LoopOrder(nRows, nCols)[k][1]
             col == LoopOrder(nRows, nCols)[k][2]
             pointIndex == row * nCols + col
         IN  SetValuesFrom([pointValues EXCEPT
                               ![pointIndex] = colorIndex(row, col, nRows, nCols)],
                           nRows, nCols, k + 1)

\* lines 199-208: InsertNextPoint once per iteration
GridPoints(nRows, nCols) ==
    [k \in 1..(nRows * nCols) |->
        LET row == LoopOrder(nRows, nCols)[k][1]
            col == LoopOrder(nRows, nCols)[k][2]
        IN  [x |-> col, y |-> nRows - 1 - row, z |-> Frac(1, 1)]]

\* what a call leaves behind when it builds no mesh and no grid
NoOutput ==
    [color |-> NoColor, points |-> <<>>, scalars |-> <<>>, lut |-> <<>>,
     cells |-> <<>>, cellColors |-> <<>>]

\* lines 180-228: the structured grid's points (the k-th inserted has index
\* k - 1), its scalars by point index, and the mapper's lookup table
VisualizerDrawWithVTK(p, nRows, nCols, colorSubstateInfos) ==
    LET numberOfPoints == nRows * nCols
        indexes == 0..(numberOfPoints - 1)
    IN  [NoOutput EXCEPT
            !.points = GridPoints(nRows, nCols),
            !.scalars = SetValuesFrom([i \in indexes |-> 0 - 1], nRows, nCols, 1),
            !.lut = buidColor([i \in indexes |-> Unset], nCols, nRows, p,
                              colorSubstateInfos)]

\* lines 457-467: getCellValue, for a location inside the grid
getCellValue(p, row, col, minValue, maxValue) ==
    LET cell == p[<<row, col>>]
    IN  IF ~cell.parses THEN minValue
        ELSE IF cell.value < minValue THEN minValue
        ELSE IF maxValue < cell.value THEN maxValue
        ELSE cell.value

\* lines 477-482: eps is far below the distance between two values
isValidValue(val, minValue, maxValue) == val - minValue > 0 /\ val <= maxValue

\* lines 484-489, for val = zraw.num / zraw.den: normalized is clamped to
\* [0, 1] and multiplied by heightScale = max(nRows, nCols) / 3.0 (line 453)
valueToHeight(zraw, minValue, maxValue, nRows, nCols) ==
    LET valueRange == maxValue - minValue
        over == zraw.num - minValue * zraw.den
        under == valueRange * zraw.den
        largest == IF nRows > nCols THEN nRows ELSE nCols
    IN  IF over < 0 THEN Frac(0, 3)
        ELSE IF over > under THEN Frac(largest, 3)
        ELSE Frac(over * largest, under * 3)

\* lines 491-494
gridToVtk(row, col, nRows) == <<col, nRows - 1 - row>>

\* lines 502-515: the base points, one per grid location
BasePoints(p, nRows, nCols, minValue, maxValue) ==
    [k \in 1..(nRows * nCols) |->
        LET row == LoopOrder(nRows, nCols)[k][1]
            col == LoopOrder(nRows, nCols)[k][2]
            z0 == getCellValue(p, row, col, minValue, maxValue)
        IN  [x |-> gridToVtk(row, col, nRows)[1], y |-> gridToVtk(row, col, nRows)[2],
             z |-> valueToHeight(Frac(z0, 1), minValue, maxValue, nRows, nCols)]]

\* lines 517-522, with the point left on the base plane
addVirtualPointAtBase(points, row, col, zraw, minValue, maxValue, nRows, nCols) ==
    Append(points,
           [x |-> gridToVtk(row, col, nRows)[1], y |-> gridToVtk(row, col, nRows)[2],
            z |-> valueToHeight(Frac(minValue, 1), minValue, maxValue, nRows, nCols)])

\* lines 517-522: the points after InsertNextPoint, whose last index is the id
addVirtualPoint(points, row, col, zraw, minValue, maxValue, nRows, nCols) ==
    Append(points,
           [x |-> gridToVtk(row, col, nRows)[1], y |-> gridToVtk(row, col, nRows)[2],
            z |-> valueToHeight(zraw, minValue, maxValue, nRows, nCols)])

\* lines 529-532: the four corners of the quad of (row, col), in the order
\* the code numbers them
Corners(row, col) ==
    <<<<row, col>>, <<row, col + 1>>, <<row + 1, col + 1>>, <<row + 1, col>>>>

\* lines 556-561: ids[i], and the points after it is found or made
RECURSIVE CornerIds(_, _, _, _, _, _, _, _, _, _)
CornerIds(mesh, corners, z, avg, ids, minValue, maxValue, nRows, nCols, i) ==
    IF i > 4 THEN [mesh EXCEPT !.cells = Append(@, ids)]
    ELSE LET at == corners[i]
         IN  IF isValidValue(z[i], minValue, maxValue)
             THEN CornerIds(mesh, corners, z, avg,
                            Append(ids, at[1] * nCols + at[2]),
                            minValue, maxValue, nRows, nCols, i + 1)
             ELSE LET added == addVirtualPoint(mesh.points, at[1], at[2], avg,
                                               minValue, maxValue, nRows, nCols)
                  IN  CornerIds([mesh EXCEPT !.points = added], corners, z, avg,
                                Append(ids, Len(added) - 1),
                                minValue, maxValue, nRows, nCols, i + 1)

\* the sum, over the valid corners, of f
RECURSIVE SumValid(_, _, _)
SumValid(valid, f, i) ==
    IF i > 4 THEN 0
    ELSE (IF valid[i] THEN f[i] ELSE 0) + SumValid(valid, f, i + 1)

\* lines 527-588: one iteration of the loop that builds the quads
QuadStep(mesh, p, row, col, nRows, nCols, minValue, maxValue, colorSubstateInfos) ==
    LET corners == Corners(row, col)
        z == [i \in 1..4 |->
                 getCellValue(p, corners[i][1], corners[i][2], minValue, maxValue)]
        v == [i \in 1..4 |-> isValidValue(z[i], minValue, maxValue)]
        validCount == Cardinality({i \in 1..4 : v[i]})
        sum == SumValid(v, z, 1)
        avg == Frac(sum, IF validCount > 1 THEN validCount ELSE 1)
        c == [i \in 1..4 |->
                 calculateCellColor(corners[i][1], corners[i][2], p, colorSubstateInfos)]
        rSum == SumValid(v, [i \in 1..4 |-> c[i].r], 1)
        gSum == SumValid(v, [i \in 1..4 |-> c[i].g], 1)
        bSum == SumValid(v, [i \in 1..4 |-> c[i].b], 1)
        withCell == CornerIds(mesh, corners, z, avg, <<>>, minValue, maxValue,
                              nRows, nCols, 1)
    IN  IF validCount < 2 THEN mesh
        ELSE [withCell EXCEPT
                 !.cellColors = Append(@, [r |-> (rSum \div validCount) % 256,
                                           g |-> (gSum \div validCount) % 256,
                                           b |-> (bSum \div validCount) % 256])]

\* lines 525-589: the mesh after the iterations from the k-th on
RECURSIVE QuadsFrom(_, _, _, _, _, _, _, _)
QuadsFrom(mesh, p, nRows, nCols, minValue, maxValue, colorSubstateInfos, k) ==
    IF k > (nRows - 1) * (nCols - 1) THEN mesh
    ELSE LET row == LoopOrder(nRows - 1, nCols - 1)[k][1]
             col == LoopOrder(nRows - 1, nCols - 1)[k][2]
         IN  QuadsFrom(QuadStep(mesh, p, row, col, nRows, nCols, minValue, maxValue,
                                colorSubstateInfos),
                       p, nRows, nCols, minValue, maxValue, colorSubstateInfos, k + 1)

\* lines 441-607; minValue and maxValue are doubles and may be NaN.  The
\* normals filter (lines 596-606) keeps the points and the cells.
build3DSubstateSurfaceQuadMesh(p, nRows, nCols, minValue, maxValue, colorSubstateInfos) ==
    IF minValue.nan \/ maxValue.nan \/ minValue.v >= maxValue.v
    THEN NoOutput
    ELSE QuadsFrom([NoOutput EXCEPT
                       !.points = BasePoints(p, nRows, nCols, minValue.v, maxValue.v)],
                   p, nRows, nCols, minValue.v, maxValue.v, colorSubstateInfos, 1)

\* "#RRGGBB" as the sequence of its characters
Hex(r1, r2, g1, g2, b1, b2) == <<"#", r1, r2, g1, g2, b1, b2>>

\* a SubstateInfo with both gradient colours chosen
Gradient(minValue, maxValue, noValueEnabled, noValue) ==
    [given |-> TRUE, minValue |-> minValue, maxValue |-> maxValue,
     noValueEnabled |-> noValueEnabled, noValue |-> noValue,
     minColor |-> Hex("f", "f", "0", "0", "1", "0"),
     maxColor |-> Hex("0", "0", "F", "F", "2", "0")]

\* what the caller passes besides the matrix: the 3D view's minValue and
\* maxValue, and colorSubstateInfos
Settings ==
    {[minValue |-> Num(1), maxValue |-> Num(3), infos |-> <<>>],
     [minValue |-> Num(1), maxValue |-> Num(3),
      infos |-> <<Gradient(Num(1), Num(3), FALSE, NaN)>>],
     [minValue |-> Num(1), maxValue |-> Num(3),
      infos |-> <<Gradient(Num(1), Num(3), TRUE, Num(2))>>],
     [minValue |-> Num(2), maxValue |-> Num(3),
      infos |-> <<Gradient(Num(2), Num(3), FALSE, NaN)>>],
     [minValue |-> NaN, maxValue |-> NaN,
      infos |-> <<Gradient(NaN, NaN, FALSE, NaN)>>],
     [minValue |-> Num(3), maxValue |-> Num(3),
      infos |-> <<[Gradient(Num(3), Num(3), FALSE, NaN) EXCEPT !.minColor = <<>>]>>]}

RowCounts == 1..2
ColCounts == 1..MaxCols

\* what a cell's stringEncoding holds: a number, or a text that is none
CellTexts ==
    {[parses |-> TRUE, value |-> v] : v \in 1..3} \cup {[parses |-> FALSE, value |-> 0]}

GridCells(nRows, nCols) == (0..(nRows - 1)) \X (0..(nCols - 1))

\* the colour the model gives the cell; no two cells of a grid share one
OwnColor(rc) == Color(40 * (rc[1] + 1), 40 * (rc[2] + 1), 1, 255)

\* the matrices of nRows x nCols cells
Matrices(nRows, nCols) ==
    {[rc \in GridCells(nRows, nCols) |->
         [parses |-> t[rc].parses, value |-> t[rc].value, own |-> OwnColor(rc)]] :
     t \in [GridCells(nRows, nCols) -> CellTexts]}

NewDrawing(nRows, nCols, p, setting) ==
    [nRows |-> nRows, nCols |-> nCols, p |-> p, setting |-> setting,
     op |-> "none", at |-> <<0, 0>>, out |-> NoOutput]

\* no Visualizer has been given anything to draw
NoDrawing ==
    NewDrawing(0, 0, [rc \in {} |-> 0],
               [minValue |-> NaN, maxValue |-> NaN, infos |-> <<>>])

\* the substate a single colour is asked for: the first of colorSubstateInfos,
\* or none
InfoOf(setting) == IF setting.infos = <<>> THEN NoInfo ELSE setting.infos[1]

\* The three methods read their arguments only, so what one returns does not
\* depend on an earlier call: each behaviour is one call on the arguments
\* chosen at its start.
NotCalled == drawing.op = "none"

\* calculateCellColorOptional(row, column, p, substateInfo)
CalculateCellColorOptional ==
    /\ NotCalled
    /\ \E rc \in GridCells(drawing.nRows, drawing.nCols) :
          drawing' = [drawing EXCEPT
              !.op = "calculateCellColorOptional",
              !.at = rc,
              !.out = [NoOutput EXCEPT !.color =
                          calculateCellColorOptional(rc[1], rc[2], drawing.p,
                                                     InfoOf(drawing.setting))]]
    /\ UNCHANGED exceptDrawing

\* drawWithVTK(p, nRows, nCols, renderer, gridActor, colorSubstateInfos)
DrawGrid ==
    /\ NotCalled
    /\ drawing' = [drawing EXCEPT
           !.op = "drawWithVTK",
           !.at = <<0, 0>>,
           !.out = VisualizerDrawWithVTK(drawing.p, drawing.nRows, drawing.nCols,
                                         drawing.setting.infos)]
    /\ UNCHANGED exceptDrawing

\* build3DSubstateSurfaceQuadMesh(p, nRows, nCols, substateFieldName, minValue,
\*                                maxValue, colorSubstateInfos)
BuildQuadMesh ==
    /\ NotCalled
    /\ drawing' = [drawing EXCEPT
           !.op = "build3DSubstateSurfaceQuadMesh",
           !.at = <<0, 0>>,
           !.out = build3DSubstateSurfaceQuadMesh(
                       drawing.p, drawing.nRows, drawing.nCols,
                       drawing.setting.minValue, drawing.setting.maxValue,
                       drawing.setting.infos)]
    /\ UNCHANGED exceptDrawing

NextDrawing ==
    \/ CalculateCellColorOptional
    \/ DrawGrid
    \/ BuildQuadMesh

----------------------------------------------------------------------------
(* CustomInteractorStyle: panning with the mouse *)

\* SceneWidget.h lines 457-462: the members' initial values
NewStyle == [m_isPanning |-> FALSE, m_lastMouseX |-> 0, m_lastMouseY |-> 0,
             superPressed |-> FALSE]

\* a window with the mouse at <<x, y>> and no button held
NewScene(x, y, hasCamera) ==
    [x |-> x, y |-> y, shift |-> FALSE, left |-> FALSE, hasCamera |-> hasCamera,
     camera |-> <<0, 0>>, waitIcon |-> FALSE, last |-> "none", panned |-> FALSE]

NoInteraction ==
    /\ style = NewStyle /\ scene = NewScene(0, 0, TRUE) /\ widget = NewWidget
    /\ drawing = NoDrawing

Coords == 0..MaxCoord

\* the camera is kept within MaxPan of where it started
InView(camera) ==
    /\ camera[1] \in (0 - MaxPan)..MaxPan
    /\ camera[2] \in (0 - MaxPan)..MaxPan

\* lines 250-257, 259-273, 317-337: the camera and its focal point are moved
\* by the mouse's movement since the last position, to the right for deltaX
\* and against the up vector for deltaY, unless there is nothing to move or
\* the mouse has not moved
PanCamera(st, sc) ==
    LET deltaX == sc.x - st.m_lastMouseX
        deltaY == sc.y - st.m_lastMouseY
        moves == sc.hasCamera /\ ~(deltaX = 0 /\ deltaY = 0)
    IN  [style |-> IF sc.hasCamera
                   THEN [st EXCEPT !.m_lastMouseX = sc.x, !.m_lastMouseY = sc.y]
                   ELSE st,
         camera |-> IF moves
                    THEN <<sc.camera[1] + deltaX, sc.camera[2] - deltaY>>
                    ELSE sc.camera,
         panned |-> moves]

\* lines 207-225: the left button goes down, with or without Shift
OnLeftButtonDown ==
    /\ ~scene.left
    /\ \E shift \in BOOLEAN :
          IF shift
          THEN /\ style' = [style EXCEPT !.m_isPanning = TRUE,
                                         !.m_lastMouseX = scene.x,
                                         !.m_lastMouseY = scene.y]
               /\ scene' = [scene EXCEPT !.left = TRUE, !.shift = shift,
                                         !.waitIcon = TRUE, !.last = "down",
                                         !.panned = FALSE]
          ELSE /\ style' = [style EXCEPT !.superPressed = TRUE]
               /\ scene' = [scene EXCEPT !.left = TRUE, !.shift = shift,
                                         !.last = "down", !.panned = FALSE]
    /\ UNCHANGED exceptInteractor

\* lines 227-240: the left button goes up
OnLeftButtonUp ==
    /\ scene.left
    /\ IF style.m_isPanning
       THEN /\ style' = [style EXCEPT !.m_isPanning = FALSE]
            /\ scene' = [scene EXCEPT !.left = FALSE, !.waitIcon = FALSE,
                                      !.last = "up", !.panned = FALSE]
       ELSE /\ style' = [style EXCEPT !.superPressed = FALSE]
            /\ scene' = [scene EXCEPT !.left = FALSE, !.last = "up", !.panned = FALSE]
    /\ UNCHANGED exceptInteractor

\* lines 242-248: the mouse has moved to another position
OnMouseMove ==
    /\ \E x \in Coords, y \in Coords :
          /\ <<x, y>> # <<scene.x, scene.y>>
          /\ LET at == [scene EXCEPT !.x = x, !.y = y, !.last = "move"]
                 pan == PanCamera(style, at)
             IN  IF style.m_isPanning
                 THEN /\ InView(pan.camera)
                      /\ style' = pan.style
                      /\ scene' = [at EXCEPT !.camera = pan.camera,
                                             !.panned = pan.panned]
                 ELSE /\ style' = style
                      /\ scene' = [at EXCEPT !.panned = FALSE]
    /\ UNCHANGED exceptInteractor

NextInteractor ==
    \/ OnLeftButtonDown
    \/ OnLeftButtonUp
    \/ OnMouseMove

----------------------------------------------------------------------------
(* The environments and builders the specifications start from *)

MountBin == <<"", "tmp", ".mount_OOpenC", "usr", "bin">>
OptBin == <<"", "opt", "oopencal", "usr", "bin">>
DefBin == <<"", "opt", "llvm", "bin">>
HomeDir == <<"", "home", "user">>
OOpenCalDir == <<"", "home", "user", "OOpenCAL">>
ViewerDir == <<"", "home", "user", "viewer">>
ViewerRootDir == <<"", "opt", "viewer">>

Lines(n) == [i \in 1..(2 * n) |-> IF i % 2 = 1 THEN "x" ELSE "\n"]

Request(std) ==
    [sourceFile |-> <<"", "home", "user", "ball.cpp">>,
     outputFile |-> <<"", "home", "user", "ball.so">>,
     cppStandard |-> std]

\* the capacity of a pipe, unless an environment sets another
PipeCapacity == 65536

\* a child that writes its stdout text, then its stderr text
Child(launch, nOut, nErr, exit, effect) ==
    [launch |-> launch, out |-> Lines(nOut), err |-> Lines(nErr),
     order |-> [i \in 1..(2 * nOut + 2 * nErr) |->
                    IF i <= 2 * nOut THEN "out" ELSE "err"],
     cap |-> PipeCapacity, readers |-> 1, exit |-> exit, effect |-> effect]

\* the compiler writes the module and exits 0
GoodChild == Child(TRUE, 0, 0, 0, "create")

\* the compiler fails with one line on stderr, each pipe read by its own thread
ThreadedChild == [Child(TRUE, 0, 1, 1, "none") EXCEPT !.readers = 2]

Children(maxOut, maxErr) ==
    {Child(FALSE, 0, 0, 0, "none"), ThreadedChild}
    \cup {Child(TRUE, o, r, x, f) : o \in 0..maxOut, r \in 0..maxErr,
                                    x \in {0, 1}, f \in {"create", "none", "remove"}}

\* a host with g++ and clang++ installed and no bundled toolchain
HostEnv ==
    [srcExists |-> TRUE, toolchainEnv |-> NoPath, toolchainDef |-> NoPath,
     files |-> {}, probeOK |-> {<<"g++">>, <<"clang++">>}, cwd |-> HomeDir,
     viewerRoot |-> NoPath, clang17 |-> TRUE, clangDir |-> "17",
     cplusplus |-> 201703, request |-> Request(""), child |-> GoodChild]

\* CLANG_TOOLCHAIN_PATH and whether clang++ exists under it
EnvToolchains ==
    {[path |-> NoPath, files |-> {}], [path |-> EmptyStr, files |-> {}]}
    \cup UNION {{[path |-> p, files |-> {}],
                  [path |-> p, files |-> {p \o <<"clang++">>}]} :
                    p \in {MountBin, OptBin}}

\* the CLANG_TOOLCHAIN_PATH compile definition and whether clang++ exists under it
DefToolchains ==
    {[path |-> NoPath, files |-> {}], [path |-> DefBin, files |-> {}],
     [path |-> DefBin, files |-> {DefBin \o <<"clang++">>}]}

\* which of the well-known clang++ locations exist, and the working directory
CommonToolchains ==
    {[files |-> {}, cwd |-> HomeDir],
     [files |-> {AppImagePaths[3]}, cwd |-> HomeDir],
     [files |-> {AppImagePaths[1]}, cwd |-> HomeDir],
     [files |-> {AppImagePaths[1]}, cwd |-> NoPath],
     [files |-> {AppImagePaths[1], AppImagePaths[3]}, cwd |-> MountBin]}

ToolchainEnvs ==
    {[HostEnv EXCEPT !.srcExists = s, !.toolchainEnv = te.path,
                     !.toolchainDef = td.path,
                     !.files = te.files \cup td.files \cup c.files,
                     !.cwd = c.cwd, !.probeOK = po, !.child = ch] :
        s \in BOOLEAN, te \in EnvToolchains, td \in DefToolchains,
        c \in CommonToolchains,
        po \in SUBSET {<<"g++">>, <<"clang++">>, <<"c++">>},
        ch \in {GoodChild, Child(FALSE, 0, 0, 0, "none"), Child(TRUE, 0, 1, 1, "none")}}

ChildEnvs ==
    {[HostEnv EXCEPT !.srcExists = s, !.toolchainEnv = te, !.files = f,
                     !.probeOK = po, !.child = ch] :
        s \in BOOLEAN, te \in {NoPath, MountBin},
        f \in {{}, {MountBin \o <<"clang++">>}},
        po \in {{}, {<<"g++">>}},
        ch \in Children(MaxOutLines, MaxErrLines)}

Builders(callbacks) ==
    {[oopencalDir |-> o, projectRootPath |-> p, hasCallback |-> h] :
        o \in {EmptyStr, OOpenCalDir}, p \in {EmptyStr, ViewerDir}, h \in callbacks}

NoResult ==
    [success |-> FALSE, exitCode |-> DefaultExitCode, stdout |-> <<>>,
     stderr |-> <<>>, compileCommand |-> <<>>,
     sourceFile |-> NoPath, outputFile |-> NoPath]

Callers == {1, 2}

\* what caller c asks for: its own source and its own output file
RequestOf(c) ==
    [sourceFile |-> <<"", "home", "user", "model" \o ToString(c) \o ".cpp">>,
     outputFile |-> <<"", "home", "user", "model" \o ToString(c) \o ".so">>,
     cppStandard |-> ""]

\* the i-th line the compiler started by caller c writes to stdout
LineOf(c, i) == <<"model" \o ToString(c) \o ".cpp: warning " \o ToString(i)>>

\* a thread about to call compileModule, whose compiler will write n lines
\* and end with exitCode
NewCaller(c, n, exitCode) ==
    [pc |-> "idle", made |-> 0, out |-> [i \in 1..n |-> LineOf(c, i)],
     exit |-> exitCode, returned |-> NoResult]

\* one builder and two threads, before either calls compileModule
Uncalled(n, exitCode) ==
    [heap |-> <<>>, lastResult |-> 0,
     caller |-> [c \in Callers |-> NewCaller(c, n[c], exitCode[c])],
     crashed |-> FALSE]

NoCallers == Uncalled([c \in Callers |-> 0], [c \in Callers |-> 0])

\* a constructed builder on which compileModule has not been called
ConstructedBuilder(envs, builders, preferred) ==
    /\ env \in envs
    /\ builder \in builders
    /\ compilerPath \in preferred
    /\ outExists \in BOOLEAN
    /\ lastResult = NoResult
    /\ twin = [result |-> NoResult, lineCount |-> 0]
    /\ pc = "idle"
    /\ proc = NoProc
    /\ lineCount = 0
    /\ progress = <<>>
    /\ runnerCalls = 0
    /\ probes = <<>>
    /\ calls = 0
    /\ descriptor = NoDescriptor

\* the same, used from one thread
Constructed(envs, builders, preferred) ==
    /\ ConstructedBuilder(envs, builders, preferred)
    /\ concurrent = NoCallers

\* the builder constructed, before the factory has been used
NoVisualizers == registry = NoModels /\ adapters = <<>> /\ issued = <<>>

InitWith(envs, builders, preferred) ==
    /\ Constructed(envs, builders, preferred)
    /\ NoVisualizers
    /\ NoInteraction

DefaultBuilder ==
    [oopencalDir |-> OOpenCalDir, projectRootPath |-> EmptyStr, hasCallback |-> TRUE]

Init ==
    \/ InitWith(ToolchainEnvs, {DefaultBuilder}, {<<"clang++">>, <<"c++">>})
    \/ InitWith(ChildEnvs, {[DefaultBuilder EXCEPT !.hasCallback = h] : h \in BOOLEAN},
                {<<"clang++">>})

Spec == Init /\ [][Next]_vars

TmpGxx == <<"", "tmp", "toolchain", "bin", "g++">>

\* environments that vary what the command is built from
CommandEnvs ==
    {[HostEnv EXCEPT !.toolchainEnv = tc.path, !.files = tc.files, !.cwd = tc.cwd,
                     !.probeOK = {<<"clang++">>, TmpGxx},
                     !.viewerRoot = vr, !.clang17 = cl.has17, !.clangDir = cl.dir,
                     !.cplusplus = cpp, !.request = Request(std)] :
        tc \in {[path |-> NoPath, files |-> {}, cwd |-> HomeDir],
                [path |-> MountBin, files |-> {MountBin \o <<"clang++">>}, cwd |-> HomeDir],
                [path |-> OptBin, files |-> {OptBin \o <<"clang++">>}, cwd |-> HomeDir],
                [path |-> NoPath, files |-> {AppImagePaths[1]}, cwd |-> MountBin]},
        vr \in {NoPath, EmptyStr, ViewerRootDir},
        cl \in {[has17 |-> TRUE, dir |-> "17"], [has17 |-> FALSE, dir |-> ""],
                [has17 |-> FALSE, dir |-> "21"]},
        cpp \in {201402, 201703, 202002, 202100, 202302},
        std \in {"", "c++11"}}

\* a few environments in which every path of compileModule is taken
PathEnvs ==
    {[HostEnv EXCEPT !.srcExists = s, !.probeOK = po, !.child = ch] :
        s \in BOOLEAN, po \in {{}, {<<"g++">>}},
        ch \in {GoodChild, Child(FALSE, 0, 0, 0, "none"), Child(TRUE, 1, 1, 1, "remove"),
                ThreadedChild}}

InitCmd ==
    \/ InitWith(CommandEnvs, Builders({TRUE}), {<<"clang++">>, TmpGxx})
    \/ InitWith(PathEnvs, {DefaultBuilder}, {<<"clang++">>})

SpecCmd == InitCmd /\ [][Next]_vars

\* environments that vary what the compiler writes to its two pipes
StreamEnvs ==
    {[HostEnv EXCEPT !.child = Child(TRUE, o, r, 0, "create")] :
        o \in 0..MaxStreamOutLines, r \in 0..MaxStreamErrLines}

InitStream ==
    \/ InitWith(StreamEnvs, {[DefaultBuilder EXCEPT !.hasCallback = h] : h \in BOOLEAN},
                {<<"clang++">>})
    \/ InitWith(PathEnvs, {DefaultBuilder}, {<<"clang++">>})

SpecStream == InitStream /\ [][Next]_vars

\* every order in which a child can write nOut stdout bytes and nErr stderr bytes
Orders(nOut, nErr) ==
    {f \in [1..(nOut + nErr) -> {"out", "err"}] : Count(f, nOut + nErr, "out") = nOut}

\* environments that vary the order of the child's writes and the pipes' capacity
PipeEnvs ==
    UNION {{[HostEnv EXCEPT !.child = [Child(TRUE, n[1], n[2], 0, "create") EXCEPT
                                          !.order = ord, !.cap = c]] :
                ord \in Orders(2 * n[1], 2 * n[2]), c \in {1, MaxPipeCap}} :
            n \in {m \in (0..MaxPipeLines) \X (0..(MaxPipeLines + 1)) :
                      m[1] + m[2] <= MaxPipeLines + 1}}

InitPipe ==
    \/ InitWith(PipeEnvs, {DefaultBuilder}, {<<"clang++">>})
    \/ InitWith(PathEnvs, {DefaultBuilder}, {<<"clang++">>})

\* the two readers and the caller's thread keep running while they can
SpecPipe ==
    /\ InitPipe
    /\ [][Next]_vars
    /\ WF_vars(StdoutChunk)
    /\ WF_vars(StderrChunk)
    /\ WF_vars(CallbackReturn)
    /\ WF_vars(ProcessExit)

\* environments that vary how many threads read the child's two pipes
ThreadEnvs ==
    {[HostEnv EXCEPT !.child = [Child(TRUE, o, r, 0, "create") EXCEPT !.readers = k]] :
        o \in {0, (BatchSize + 1) \div 2}, r \in 0..MaxThreadErrLines, k \in {1, 2}}

InitThreads ==
    \/ InitWith(ThreadEnvs, {DefaultBuilder}, {<<"clang++">>})
    \/ InitWith(PathEnvs, {DefaultBuilder}, {<<"clang++">>})

SpecThreads == InitThreads /\ [][Next]_vars

\* compilation followed by loading
SpecLifecycle == Init /\ [][NextLifecycle]_vars

\* the compilerPath argument the builder is constructed with
AsConstructed == <<"clang++">>

\* Between two calls compilers are installed on the host or removed from
\* it: "<compiler> --version" succeeds for other compilers than before.
Reinstall ==
    /\ pc \in {"idle", "returned"}
    /\ calls < MaxCalls
    /\ \E po \in SUBSET {<<"g++">>, <<"clang++">>} :
          /\ po # env.probeOK
          /\ env' = [env EXCEPT !.probeOK = po]
    /\ UNCHANGED <<outExists, compilerPath, lastResult, pc, proc, lineCount,
                   progress, runnerCalls, probes, calls, builder, twin, descriptor>>
    /\ UNCHANGED uiVars

NextRebuild ==
    \/ Next
    \/ Reinstall

\* a builder constructed to prefer clang++
InitRebuild == InitWith(PathEnvs, {DefaultBuilder}, {AsConstructed})

\* calls on one builder, on a host that changes between them
SpecRebuild == InitRebuild /\ [][NextRebuild]_vars

\* the factory at startup, with or without a built-in model registered
InitVisualizers ==
    /\ Constructed({HostEnv}, {DefaultBuilder}, {<<"clang++">>})
    /\ outExists = FALSE
    /\ NoInteraction
    /\ adapters = <<>>
    /\ \/ registry = NoModels /\ issued = <<>>
       \/ /\ registry = registerModel(NoModels, "ballcell", Ctor("ballcell", "BallCell"))
          /\ issued = <<[on |-> 0, op |-> "register", args |-> <<"ballcell", "BallCell">>,
                         result |-> Void]>>

SpecVisualizers == InitVisualizers /\ [][NextVisualizers]_vars

\* a style on a window, with or without a camera to move
InitInteractor ==
    /\ Constructed({HostEnv}, {DefaultBuilder}, {<<"clang++">>})
    /\ outExists = FALSE
    /\ NoVisualizers
    /\ style = NewStyle
    /\ widget = NewWidget
    /\ drawing = NoDrawing
    /\ \E x \in Coords, y \in Coords, c \in BOOLEAN : scene = NewScene(x, y, c)

SpecInteractor == InitInteractor /\ [][NextInteractor]_vars

\* a newly constructed widget
InitDisplay ==
    /\ InitWith({HostEnv}, {DefaultBuilder}, {<<"clang++">>})
    /\ outExists = FALSE

SpecDisplay == InitDisplay /\ [][NextDisplay]_vars

\* a Visualizer about to draw a matrix of cells
InitDrawing ==
    /\ Constructed({HostEnv}, {DefaultBuilder}, {<<"clang++">>})
    /\ outExists = FALSE
    /\ NoVisualizers
    /\ style = NewStyle
    /\ widget = NewWidget
    /\ scene = NewScene(0, 0, TRUE)
    /\ \E nRows \in RowCounts, nCols \in ColCounts, setting \in Settings :
          \E p \in Matrices(nRows, nCols) :
             drawing = NewDrawing(nRows, nCols, p, setting)

SpecDrawing == InitDrawing /\ [][NextDrawing]_vars

----------------------------------------------------------------------------
(* compileModule called from two threads at once *)

\* The accesses to lastResult are steps of their own: each reads the member
\* when it runs, so it reaches whichever object the member owns by then.

\* the object the member owns
Owned == concurrent.heap[concurrent.lastResult]

\* caller c has reached the step `at`, and the process is still running
At(c, at) == ~concurrent.crashed /\ concurrent.caller[c].pc = at

\* caller c moves on to `to` after writing r over the object the member owns
WriteThroughMember(c, to, r) ==
    [concurrent EXCEPT !.heap[concurrent.lastResult] = r, !.caller[c].pc = to]

\* line 279: lastResult = std::make_unique<CompilationResult>()
Allocate(c) ==
    /\ At(c, "idle")
    /\ concurrent' = [concurrent EXCEPT
           !.heap = Append(@, NoResult),
           !.lastResult = Len(concurrent.heap) + 1,
           !.caller[c].pc = "created",
           !.caller[c].made = Len(concurrent.heap) + 1]
    /\ UNCHANGED exceptConcurrent

\* lines 280-281
SetFiles(c) ==
    /\ At(c, "created")
    /\ concurrent' = WriteThroughMember(c, "named",
           [Owned EXCEPT !.sourceFile = RequestOf(c).sourceFile,
                         !.outputFile = RequestOf(c).outputFile])
    /\ UNCHANGED exceptConcurrent

\* line 344
SetCommand(c) ==
    /\ At(c, "named")
    /\ concurrent' = WriteThroughMember(c, "running",
           [Owned EXCEPT !.compileCommand =
               buildCompileCommand(HostEnv, AvailableCompiler(HostEnv, AsConstructed),
                                   DefaultBuilder, RequestOf(c).sourceFile,
                                   RequestOf(c).outputFile, RequestOf(c).cppStandard)])
    /\ UNCHANGED exceptConcurrent

\* lines 357-358: the stdout sink of caller c is handed its child's next line
SinkLine(c) ==
    /\ At(c, "running")
    /\ concurrent.caller[c].out # <<>>
    /\ concurrent' =
           [WriteThroughMember(c, "running",
                StdoutSink(FALSE, Owned, 0, Head(concurrent.caller[c].out)).result)
            EXCEPT !.caller[c].out = Tail(@)]
    /\ UNCHANGED exceptConcurrent

\* line 355: executeCommand has returned, and its value is assigned
SetExitCode(c) ==
    /\ At(c, "running")
    /\ concurrent.caller[c].out = <<>>
    /\ concurrent' = WriteThroughMember(c, "exited",
           [Owned EXCEPT !.exitCode = concurrent.caller[c].exit])
    /\ UNCHANGED exceptConcurrent

\* lines 371-378: a compiler that exits with 0 has written its output file
Judge(c) ==
    /\ At(c, "exited")
    /\ concurrent' = WriteThroughMember(c, "judged",
           Finish(Owned, Owned.exitCode, concurrent.caller[c].exit = 0))
    /\ UNCHANGED exceptConcurrent

\* line 386: return *lastResult
Return(c) ==
    /\ At(c, "judged")
    /\ concurrent' = [concurrent EXCEPT !.caller[c].pc = "returned",
                                        !.caller[c].returned = Owned]
    /\ UNCHANGED exceptConcurrent

\* The member is written by one thread (line 279) while the other reads it
\* with no synchronisation, and the object the other was using is destroyed:
\* the behaviour is undefined, and one outcome is that the process dies.
Fault(c) ==
    /\ ~concurrent.crashed
    /\ concurrent.caller[c].pc \notin {"idle", "returned"}
    /\ concurrent.caller[c].made # concurrent.lastResult
    /\ concurrent' = [concurrent EXCEPT !.crashed = TRUE]
    /\ UNCHANGED exceptConcurrent

NextConcurrent ==
    \/ \E c \in Callers : Allocate(c)
    \/ \E c \in Callers : SetFiles(c)
    \/ \E c \in Callers : SetCommand(c)
    \/ \E c \in Callers : SinkLine(c)
    \/ \E c \in Callers : SetExitCode(c)
    \/ \E c \in Callers : Judge(c)
    \/ \E c \in Callers : Return(c)
    \/ \E c \in Callers : Fault(c)

\* two threads about to compile two models with one builder
InitConcurrent ==
    /\ ConstructedBuilder({HostEnv}, {DefaultBuilder}, {AsConstructed})
    /\ outExists = FALSE
    /\ NoVisualizers
    /\ NoInteraction
    /\ \E n \in [Callers -> 0..MaxRaceLines], x \in [Callers -> {0, 1}] :
          concurrent = Uncalled(n, x)

SpecConcurrent == InitConcurrent /\ [][NextConcurrent]_vars

----------------------------------------------------------------------------
(* Properties *)

Range(f) == {f[i] : i \in DOMAIN f}

Returned == pc = "returned"

C2_MissingSourceNoRunner ==
    (calls > 0 /\ ~env.srcExists) =>
        (Returned /\ ~lastResult.success /\ runnerCalls = 0)

\* source missing while a bundled clang++ and the output file both exist
C2_Witness ==
    /\ Returned
    /\ ~env.srcExists
    /\ outExists
    /\ ~empty(getClangToolchainPath(env))
    /\ ~lastResult.success

\* no clang++ at any bundled location and no successful probe
NoToolchain ==
    /\ env.files = {}
    /\ ({compilerPath} \cup Range(Fallbacks)) \cap env.probeOK = {}

\* C3: when no toolchain resolves, the call returns success = false with a
\* non-empty stderr message and executeCommand is never entered.
C3_NoToolchainFails ==
    (calls > 0 /\ env.srcExists /\ NoToolchain) =>
        /\ Returned
        /\ ~lastResult.success
        /\ lastResult.stderr # <<>>
        /\ runnerCalls = 0

C3_Witness ==
    /\ Returned
    /\ env.srcExists
    /\ NoToolchain
    /\ probes = <<compilerPath>> \o
                SelectSeq(Fallbacks, LAMBDA c : c # compilerPath)
    /\ lastResult.stderr # <<>>

\* the call reached executeCommand and the process could not be started
LaunchFailed == calls > 0 /\ runnerCalls = 1 /\ ~env.child.launch

\* C4: when the process cannot be started, compileModule still returns; the
\* exitCode is the negative sentinel, which no process exit status equals, and
\* success is false whether or not a file exists at outputFile.
C4_LaunchErrorSentinel ==
    LaunchFailed =>
        /\ Returned
        /\ lastResult.exitCode = LaunchError
        /\ LaunchError < 0
        /\ LaunchError \notin ExitStatuses
        /\ ~lastResult.success

\* a failed launch with a file already at outputFile
C4_Witness ==
    /\ LaunchFailed
    /\ Returned
    /\ outExists
    /\ ~lastResult.success

\* CLANG_TOOLCHAIN_PATH is set, non-empty, and clang++ exists under it
IndicatorHasClang ==
    /\ env.toolchainEnv \notin {NoPath, EmptyStr}
    /\ (env.toolchainEnv \o <<"clang++">>) \in env.files

\* the call got past the source check
Resolving == calls > 0 /\ env.srcExists

Command == Range(lastResult.compileCommand)

\* C5: when the bundled-toolchain indicator names a directory that holds
\* clang++, that clang++ is the compiler of the command, no --version probe
\* is run, and resolution succeeds whatever the probes would answer.
C5_BundledSelectedUnprobed ==
    (Resolving /\ IndicatorHasClang) =>
        /\ probes = <<>>
        /\ runnerCalls = 1
        /\ compilerPath = env.toolchainEnv \o <<"clang++">>
        /\ T("compiler", compilerPath) \in Command

\* the bundled clang++ would not probe, the preferred compiler would
C5_Witness ==
    /\ Resolving
    /\ IndicatorHasClang
    /\ calls = 1
    /\ ~isCompilerAvailable(env, env.toolchainEnv \o <<"clang++">>)
    /\ env.probeOK = {<<"clang++">>, <<"c++">>}
    /\ compilerPath = env.toolchainEnv \o <<"clang++">>

\* the preferred compiler if it probes, else the first fallback that probes,
\* each taken only after its own probe succeeded; probes[1] is the preferred
\* compiler of the call
HostDiscovered ==
    /\ probes # <<>>
    /\ LET pref == probes[1]
           ok == {i \in 1..Len(Fallbacks) : Fallbacks[i] \in env.probeOK}
           expected == IF pref \in env.probeOK THEN pref
                       ELSE IF ok = {} THEN EmptyStr
                       ELSE Fallbacks[Min(ok)]
       IN  IF expected = EmptyStr
           THEN Returned /\ runnerCalls = 0 /\ ~lastResult.success
           ELSE /\ runnerCalls = 1
                /\ compilerPath = expected
                /\ probes[Len(probes)] = expected
                /\ \A i \in 1..(Len(probes) - 1) : probes[i] \notin env.probeOK

NoBundledClang ==
    /\ ~IndicatorHasClang
    /\ \/ env.toolchainDef \in {NoPath, EmptyStr}
       \/ (env.toolchainDef \o <<"clang++">>) \notin env.files
    /\ \A i \in 1..Len(AppImagePaths) : AppImagePaths[i] \notin env.files

C7_BundledCommandIsolated ==
    (Resolving /\ IndicatorHasClang /\ runnerCalls = 1) =>
        /\ T("-nostdinc", NoPath) \in Command
        /\ T("-nostdinc++", NoPath) \in Command
        /\ SystemVtkInclude \notin Command

\* positions in the command
CmdAt(S) == {i \in 1..Len(lastResult.compileCommand) : lastResult.compileCommand[i] \in S}

SysAt == {i \in 1..Len(lastResult.compileCommand) :
            lastResult.compileCommand[i].flag = "-isystem"}
DomainAt == CmdAt(Range(OOpenCalIncludes(builder.oopencalDir)))
RootProjectAt == CmdAt(Range(ProjectIncludes(env, builder.projectRootPath)))
BundledProjectAt == CmdAt(Range(BundledProjectIncludes(compilerPath)))
ProjectAt == RootProjectAt \cup BundledProjectAt
ConfigAt == CmdAt({VtkCompileFlags})
VtkAt == CmdAt(Range(VtkInclude(compilerPath)))

Before(A, B) == \A i \in A, j \in B : i < j

\* 1 C runtime, 2 standard library, 3 platform config, 4 compiler intrinsics,
\* 5 bundled fallback system headers
SysRank(arg) ==
    IF "gcc" \in Range(arg) THEN 5
    ELSE IF "clang" \in Range(arg) THEN 4
    ELSE IF "x86_64-unknown-linux-gnu" \in Range(arg) THEN 3
    ELSE IF "c++" \in Range(arg) THEN 2
    ELSE 1

RankOrdered(A) ==
    \A i \in A, j \in A :
        i < j => SysRank(lastResult.compileCommand[i].arg)
                    <= SysRank(lastResult.compileCommand[j].arg)

BundledCommand == Resolving /\ IndicatorHasClang /\ runnerCalls = 1

LateSysAt == {i \in SysAt : \E j \in VtkAt : j < i}

RECURSIVE Newlines(_)
Newlines(bytes) ==
    IF bytes = <<>> THEN 0
    ELSE (IF Head(bytes) = "\n" THEN 1 ELSE 0) + Newlines(Tail(bytes))

Delivered(all, rest) == SubSeq(all, 1, Len(all) - Len(rest))

StdoutLinesReceived == Newlines(Delivered(proc.outAll, proc.out))
StderrLinesReceived == Newlines(Delivered(proc.errAll, proc.err))

StdoutMsgs == SelectSeq(progress, LAMBDA m : m.kind = "stdout")
StderrMsgs == SelectSeq(progress, LAMBDA m : m.kind = "stderr")

\* a child is running or has run, observed by a progress callback
Observed == runnerCalls = 1 /\ env.child.launch /\ builder.hasCallback

\* C9: at every moment of a run the callback has been invoked for stdout once
\* per BatchSize stdout lines received, the k-th time with count BatchSize * k.
C9_StdoutCallbackEveryFifthLine ==
    Observed =>
        /\ Len(StdoutMsgs) = StdoutLinesReceived \div BatchSize
        /\ \A k \in 1..Len(StdoutMsgs) : StdoutMsgs[k].n = BatchSize * k

\* C10: at every moment of a run the callback has been invoked for stderr
\* once per stderr line received, each time with that one line.
C10_StderrCallbackPerLine ==
    Observed =>
        /\ Len(StderrMsgs) = StderrLinesReceived
        /\ \A k \in 1..Len(StderrMsgs) : Newlines(StderrMsgs[k].text) = 1

\* the messages compileModule sends before the child runs, and those its two
\* sinks send while the child runs
PreRunKinds == {"checking", "using", "preparing", "compiling"}
StreamKinds == {"stdout", "stderr"}

\* a call that ran the child to its exit, observed by a progress callback
RanObserved == Returned /\ Observed

\* C11: once the child has exited and compileModule has returned, the last
\* message the callback received is a final summary: a message that is neither
\* one of the pre-run messages nor one sent by a stream sink.
C11_FinalSummaryAfterExit ==
    RanObserved =>
        /\ progress # <<>>
        /\ progress[Len(progress)].kind \notin PreRunKinds \cup StreamKinds

\* a occurs in b as a subsequence: b holds all of a, in a's order
RECURSIVE IsSubseq(_, _)
IsSubseq(a, b) ==
    IF a = <<>> THEN TRUE
    ELSE IF b = <<>> THEN FALSE
    ELSE IF Head(a) = Head(b) THEN IsSubseq(Tail(a), Tail(b))
    ELSE IsSubseq(a, Tail(b))

\* a child has been started by the current call
Ran == runnerCalls = 1 /\ env.child.launch

\* C12: at every moment of a run the bytes read so far from each pipe are in
\* the result's text of that stream, in the order the child wrote them; when
\* compileModule has returned nothing is left to hand to a sink, so the texts
\* hold all the child wrote and no sink or callback runs after the return.
C12_StreamedBeforeReturn ==
    Ran =>
        /\ IsSubseq(Delivered(proc.outAll, proc.out), lastResult.stdout)
        /\ IsSubseq(Delivered(proc.errAll, proc.err), lastResult.stderr)
        /\ Returned =>
            /\ ReadersDone(proc)
            /\ IsSubseq(proc.outAll, lastResult.stdout)
            /\ IsSubseq(proc.errAll, lastResult.stderr)

\* the child is still running: part of each stream is in the result, part is
\* yet to be read
C12_Witness ==
    /\ Ran
    /\ pc = "running"
    /\ Delivered(proc.outAll, proc.out) # <<>>
    /\ Delivered(proc.errAll, proc.err) # <<>>
    /\ Len(proc.out) >= 2
    /\ Len(proc.err) >= 2
    /\ Len(lastResult.stdout) > 2
    /\ lastResult.stderr # <<>>

\* C13: a started child, whatever it writes to its two pipes, in whatever
\* order and however small the pipes, leads to compileModule returning with
\* both pipes read to their end and the child's exit status in the result.
C13_RunnerReturns ==
    (pc = "running") ~>
        (Returned /\ ReadersDone(proc) /\ lastResult.exitCode = proc.exit)

\* C14: during a call no two invocations of the progress callback overlap:
\* at most one reader is inside the callback at a time, and only while the
\* thread that called compileModule is waiting in executeCommand.
C14_CallbackInvocationsNeverOverlap ==
    /\ Cardinality(proc.busy) <= 1
    /\ proc.busy # {} => pc = "running"

\* C15: whatever has been called and handed over so far, the result is the
\* one the same builder would hold were its progress callback the other way
\* round (set instead of absent, absent instead of set); a builder without a
\* callback never invokes one and compileModule never ends in an error.
C15_CallbackOnlyObserves ==
    /\ lastResult.success = twin.result.success
    /\ lastResult.exitCode = twin.result.exitCode
    /\ lastResult.stdout = twin.result.stdout
    /\ lastResult.stderr = twin.result.stderr
    /\ lastResult.compileCommand = twin.result.compileCommand
    /\ pc \in {"idle", "running", "returned"}
    /\ ~builder.hasCallback => (progress = <<>> /\ proc.busy = {} /\ lineCount = 0)

\* a successful run without a callback whose output would have made a builder
\* with a callback report a batch of stdout pieces and a stderr piece
C15_Witness ==
    /\ Ran
    /\ Returned
    /\ ~builder.hasCallback
    /\ twin.lineCount = BatchSize
    /\ lastResult.stderr # <<>>
    /\ lastResult.success

\* C16: when a run has failed (nonzero exit, or exit 0 without the module),
\* the result's stderr text is exactly the bytes the child wrote to stderr.
C16_StderrVerbatimOnFailure ==
    (Ran /\ Returned /\ ~lastResult.success) => lastResult.stderr = proc.errAll

\* the value of __cplusplus from which a build knows each standard
KnownSince == [s \in {"c++17", "c++20", "c++23"} |->
                  CASE s = "c++17" -> 201703 [] s = "c++20" -> 202002 [] OTHER -> 202302]

\* the standards the -std= pieces of the command name
StdArgs == {t.arg : t \in {u \in Command : u.flag = "-std="}}

\* C17: a synthesized command has one -std= piece; it names the request's
\* standard when that is non-empty, and otherwise the newest of c++17, c++20,
\* c++23 the host build knows, or c++14 when it knows none of them.
C17_StandardSelection ==
    (calls > 0 /\ runnerCalls = 1) =>
        LET known == {s \in DOMAIN KnownSince : KnownSince[s] <= env.cplusplus}
            newest == IF known = {} THEN "c++14"
                      ELSE CHOOSE s \in known :
                               \A o \in known : KnownSince[o] <= KnownSince[s]
        IN  /\ Cardinality(CmdAt({t \in Command : t.flag = "-std="})) = 1
            /\ StdArgs = {<<IF env.request.cppStandard # ""
                            THEN env.request.cppStandard ELSE newest>>}

\* an override older than every detected standard on a host built as C++23
C17_Witness ==
    /\ calls > 0
    /\ runnerCalls = 1
    /\ env.request.cppStandard = "c++11"
    /\ env.cplusplus = 202302
    /\ StdArgs = {<<"c++11">>}

\* the compiler of the call is a bundled clang++ / was found on the host
BundledToolchain == ~empty(getClangToolchainPath(env))
HostToolchain == empty(getClangToolchainPath(env))

\* the compiler runs from an AppImage mount point
Mounted == \E i \in 1..Len(compilerPath) : compilerPath[i] \in MountSegs

LibraryPathAt == {i \in 1..Len(lastResult.compileCommand) :
                    lastResult.compileCommand[i].flag = "LD_LIBRARY_PATH="}
CompilerAt == CmdAt({T("compiler", compilerPath)})

\* C18: the command for a bundled toolchain run from a mount point starts
\* with the LD_LIBRARY_PATH assignment, followed by the compiler; the command
\* for a toolchain found on the host starts with the compiler and holds no
\* such assignment.
C18_LibraryPathPrefix ==
    (Resolving /\ runnerCalls = 1) =>
        /\ (BundledToolchain /\ Mounted) => (LibraryPathAt = {1} /\ CompilerAt = {2})
        /\ HostToolchain => (LibraryPathAt = {} /\ CompilerAt = {1})

\* each stream is larger than its pipe, and the child blocks on its second
\* stderr byte before it has written any stdout
C13_Witness ==
    /\ Ran
    /\ Returned
    /\ proc.cap < Len(proc.outAll)
    /\ proc.cap < Len(proc.errAll)
    /\ proc.order[1] = "err"
    /\ proc.order[2] = "err"
    /\ lastResult.exitCode = proc.exit

----------------------------------------------------------------------------
(* The adapter and the factory *)

\* the interface operations the adapter hands to the implementation, and
\* those of them whose receiver is also given the implementation's own matrix
ForwardedOps ==
    {"initMatrix", "prepareStage", "clearStage", "readStepsOffsetsForAllNodesFromFiles",
     "readStageStateFromFilesForStep", "drawWithVTK", "refreshWindowsVTK",
     "availableSteps"}
NeedsMatrix == {"readStageStateFromFilesForStep", "drawWithVTK", "refreshWindowsVTK"}

ForwardedTo(h) == SelectSeq(issued, LAMBDA c : c.on = h /\ c.op \in ForwardedOps)

\* the create call that returned adapter h
CreatedBy(h) ==
    {i \in 1..Len(issued) : issued[i].op = "create" /\ issued[i].result.kind = "handle"
                               /\ issued[i].result.value = <<h>>}

RegisteredBefore(i, name) ==
    \E j \in 1..(i - 1) : issued[j].op = "register" /\ issued[j].args[1] = name

\* the names adapter h has reported
Reported(h) ==
    {issued[k].result : k \in {m \in 1..Len(issued) :
                                  issued[m].on = h /\ issued[m].op = "getModelName"}}

RegistrationsBefore(i, name) ==
    {j \in 1..(i - 1) : issued[j].op = "register" /\ issued[j].args[1] = name}

\* the register calls for name made after the i-th call
RegistrationsAfter(i, name) ==
    {j \in (i + 1)..Len(issued) : issued[j].op = "register" /\ issued[j].args[1] = name}

\* the cell type registered under name when the i-th call was made
CellAt(i, name) ==
    LET js == RegistrationsBefore(i, name)
    IN  issued[CHOOSE j \in js : \A k \in js : k <= j].args[2]

\* C21: an adapter returned by create stays an adapter of the cell type that
\* was registered under its name when it was created, keeps every call it
\* has received, and reports the name it was created under, whatever is
\* registered under that name afterwards.
C21_ReRegistrationKeepsInstances ==
    \A i \in 1..Len(issued) :
        (issued[i].op = "create" /\ issued[i].result.kind = "handle") =>
            LET name == issued[i].args[1]
                a == adapters[issued[i].result.value[1]]
            IN  /\ a.m_impl.cell = CellAt(i, name)
                /\ a.m_modelName = name
                /\ Len(a.m_impl.calls) = Len(ForwardedTo(issued[i].result.value[1]))
                /\ \A r \in Reported(issued[i].result.value[1]) : r.value = <<name>>

\* an adapter was created, its name was then registered again with another
\* cell type, and the adapter has since been called and asked for its name
C21_Witness ==
    \E i \in 1..Len(issued) :
        /\ issued[i].op = "create" /\ issued[i].result.kind = "handle"
        /\ \E j \in RegistrationsAfter(i, issued[i].args[1]) :
              /\ issued[j].args[2] # CellAt(i, issued[i].args[1])
              /\ \E k, m \in (j + 1)..Len(issued) :
                    /\ issued[k].on = issued[i].result.value[1]
                    /\ issued[k].op \in ForwardedOps
                    /\ issued[m].on = issued[i].result.value[1]
                    /\ issued[m].op = "getModelName"

----------------------------------------------------------------------------
(* The lifecycle of a compiled model *)

\* the lifecycle state of the object lastResult owns
Lifecycle ==
    CASE pc = "idle" -> "NotCompiled"
      [] pc = "running" -> "Compiling"
      [] pc = "returned" /\ ~lastResult.success -> "CompileFailed"
      [] pc = "returned" /\ lastResult.success /\ descriptor.loaded = "no" -> "Compiled"
      [] OTHER -> descriptor.loaded

ForwardSteps ==
    {<<"NotCompiled", "Compiling">>, <<"Compiling", "Compiled">>,
     <<"Compiling", "CompileFailed">>, <<"Compiled", "Loaded">>,
     <<"Compiled", "LoadFailed">>}

----------------------------------------------------------------------------
(* Panning *)

\* C23: panning is active exactly while the left button is held down, and a
\* mouse move pans the camera exactly when the button is held (given there
\* is a camera to pan).
C23_PanningWhileLeftHeld ==
    /\ style.m_isPanning <=> scene.left
    /\ (scene.last = "move" /\ scene.hasCamera) => (scene.panned <=> scene.left)

----------------------------------------------------------------------------
(* The substate display widget *)

ColorringRequests ==
    {i \in 1..Len(widget.signals) :
        widget.signals[i].signal = "useSubstateColorringRequested"}

\* C24: after a click on the clear-colours button the colouring request has
\* been emitted, and it was emitted when both colours were already empty.
C24_ColorsClearedBeforeRequest ==
    widget.event = "clearColors" =>
        /\ ColorringRequests # {}
        /\ \A i \in ColorringRequests :
              widget.signals[i].minColor = "" /\ widget.signals[i].maxColor = ""

\* C25: the "use as 3D" button and the colouring checkbox are enabled
\* exactly when the minimum and the maximum both hold a value.
C25_ButtonsEnabledIffMinAndMax ==
    /\ widget.use3dEnabled <=> (hasMinValue(widget) /\ hasMaxValue(widget))
    /\ widget.colorringEnabled <=> (hasMinValue(widget) /\ hasMaxValue(widget))

\* the minimum has just been set back to empty while the maximum holds a
\* value
C25_Witness ==
    /\ widget.event \in {"setMinValue", "editMin"}
    /\ ~hasMinValue(widget) /\ hasMaxValue(widget)
    /\ widget.signals # <<>>

----------------------------------------------------------------------------
(* Cell colours *)

\* the colour asked for was of a substate with gradient colours and with
\* minimum and maximum set
GradientAsked ==
    /\ drawing.op = "calculateCellColorOptional"
    /\ InfoOf(drawing.setting).given
    /\ InfoOf(drawing.setting).minColor # <<>>
    /\ InfoOf(drawing.setting).maxColor # <<>>
    /\ ~InfoOf(drawing.setting).minValue.nan
    /\ ~InfoOf(drawing.setting).maxValue.nan

\* c is the channel between lo and hi at the place value takes between
\* minVal and maxVal, rounded down
Between(c, lo, hi, value, minVal, maxVal) ==
    /\ c * (maxVal - minVal) <= lo * (maxVal - minVal) + (hi - lo) * (value - minVal)
    /\ lo * (maxVal - minVal) + (hi - lo) * (value - minVal) < (c + 1) * (maxVal - minVal)

\* C26: for a substate with gradient colours and min/max set, no colour is
\* returned exactly when the cell's value fails to parse, lies outside
\* [minValue, maxValue] or equals the enabled noValue; every other value,
\* minValue and maxValue included, gets the colour interpolated between the
\* two gradient colours.
C26_ColourUnlessOutOfRange ==
    GradientAsked =>
        LET info == InfoOf(drawing.setting)
            cell == drawing.p[drawing.at]
            got == drawing.out.color
            lo == parseHexColor(info.minColor)
            hi == parseHexColor(info.maxColor)
            none == \/ ~cell.parses
                    \/ cell.value < info.minValue.v
                    \/ cell.value > info.maxValue.v
                    \/ /\ info.noValueEnabled /\ ~info.noValue.nan
                       /\ cell.value = info.noValue.v
        IN  /\ ~got.has <=> none
            /\ (got.has /\ info.minValue.v < info.maxValue.v) =>
                   /\ Between(got.color.r, lo[1], hi[1], cell.value,
                              info.minValue.v, info.maxValue.v)
                   /\ Between(got.color.g, lo[2], hi[2], cell.value,
                              info.minValue.v, info.maxValue.v)
                   /\ Between(got.color.b, lo[3], hi[3], cell.value,
                              info.minValue.v, info.maxValue.v)

----------------------------------------------------------------------------
(* The 3D quad mesh *)

\* a mesh was asked for with a minimum and a maximum that are numbers
MeshAsked ==
    /\ drawing.op = "build3DSubstateSurfaceQuadMesh"
    /\ ~drawing.setting.minValue.nan
    /\ ~drawing.setting.maxValue.nan

\* the value the mesh takes for the cell at rc
MeshValue(rc) ==
    getCellValue(drawing.p, rc[1], rc[2],
                 drawing.setting.minValue.v, drawing.setting.maxValue.v)

\* the corners of the quad of cell rc whose values are valid
ValidCorners(rc) ==
    {at \in {Corners(rc[1], rc[2])[i] : i \in 1..4} :
        isValidValue(MeshValue(at), drawing.setting.minValue.v,
                     drawing.setting.maxValue.v)}

\* the cells (row, col) with row + 1 < nRows and col + 1 < nCols that have at
\* least two valid corners, in row-major order
Healed ==
    SelectSeq(LoopOrder(drawing.nRows - 1, drawing.nCols - 1),
              LAMBDA rc : Cardinality(ValidCorners(rc)) >= 2)

RECURSIVE Total(_, _)
Total(S, f) ==
    IF S = {} THEN 0
    ELSE LET x == CHOOSE y \in S : TRUE IN f[x] + Total(S \ {x}, f)

\* how often the point id is used as a corner of a quad of the mesh
Uses(id) ==
    Cardinality({<<k, i>> \in (1..Len(drawing.out.cells)) \X (1..4) :
                    drawing.out.cells[k][i] = id})

\* C27: the mesh has one quad for each cell (row, col), row + 1 < nRows and
\* col + 1 < nCols, that has at least two valid corner values, and none for
\* the others.  Each corner of a quad is a point at that corner's grid
\* location: the location's base point if the corner's value is valid,
\* otherwise a new point, used by this quad only, whose height is the height
\* of the average of the valid corners' values.  The quad's colour is the
\* sum of the valid corners' colours divided by their number.
C27_HealedQuads ==
    MeshAsked =>
        LET out == drawing.out
            nRows == drawing.nRows
            nCols == drawing.nCols
            minValue == drawing.setting.minValue.v
            maxValue == drawing.setting.maxValue.v
            largest == IF nRows > nCols THEN nRows ELSE nCols
            cellColor == [rc \in GridCells(nRows, nCols) |->
                             calculateCellColor(rc[1], rc[2], drawing.p,
                                                drawing.setting.infos)]
        IN  /\ Len(out.cells) = Len(Healed)
            /\ Len(out.cellColors) = Len(Healed)
            /\ \A k \in 1..Len(Healed) :
                  LET rc == Healed[k]
                      valid == ValidCorners(rc)
                      n == Cardinality(valid)
                  IN  /\ \A i \in 1..4 :
                            LET at == Corners(rc[1], rc[2])[i]
                                id == out.cells[k][i]
                                point == out.points[id + 1]
                            IN  /\ id + 1 \in 1..Len(out.points)
                                /\ point.x = at[2]
                                /\ point.y = nRows - 1 - at[1]
                                /\ at \in valid => id = at[1] * nCols + at[2]
                                /\ at \notin valid =>
                                      /\ id >= nRows * nCols
                                      /\ Uses(id) = 1
                                      /\ point.z.den > 0
                                      /\ point.z.num * (n * (maxValue - minValue) * 3)
                                           = point.z.den * largest
                                             * Total(valid, [c \in valid |->
                                                         MeshValue(c) - minValue])
                      /\ out.cellColors[k].r
                           = Total(valid, [c \in valid |-> cellColor[c].r]) \div n
                      /\ out.cellColors[k].g
                           = Total(valid, [c \in valid |-> cellColor[c].g]) \div n
                      /\ out.cellColors[k].b
                           = Total(valid, [c \in valid |-> cellColor[c].b]) \div n

\* a mesh of one quad, two of whose corners are valid and two of whose
\* corners are new points
C27_Witness ==
    /\ MeshAsked
    /\ Len(drawing.out.cells) = 1
    /\ Cardinality(ValidCorners(<<0, 0>>)) = 2
    /\ Len(drawing.out.points) = drawing.nRows * drawing.nCols + 2

----------------------------------------------------------------------------
(* The 2D grid *)

\* the lookup table entry is the colour, each channel on the unit scale
Shows(entry, color) ==
    /\ entry.r.den > 0 /\ entry.g.den > 0 /\ entry.b.den > 0
    /\ entry.r.num * (IF color.r > 1 THEN 255 ELSE 1) = color.r * entry.r.den
    /\ entry.g.num * (IF color.g > 1 THEN 255 ELSE 1) = color.g * entry.g.den
    /\ entry.b.num * (IF color.b > 1 THEN 255 ELSE 1) = color.b * entry.b.den

\* the indexes of the points placed where cell rc is drawn
PointsOf(rc) ==
    {i \in 0..(Len(drawing.out.points) - 1) :
        /\ drawing.out.points[i + 1].x = rc[2]
        /\ drawing.out.points[i + 1].y = drawing.nRows - 1 - rc[1]}

\* C28: the grid drawn for an nRows x nCols matrix has one point per cell;
\* the point of cell (row, col) lies at x = col, y = nRows - 1 - row and
\* carries the lookup index (nRows - 1 - row) * nCols + col, the entry of
\* the lookup table at that index is the colour of cell (row, col), and the
\* lookup indexes of the points are the numbers 0..nRows * nCols - 1, each
\* carried by one point.
C28_PointShowsOwnCell ==
    drawing.op = "drawWithVTK" =>
        LET out == drawing.out
            nRows == drawing.nRows
            nCols == drawing.nCols
            indexes == 0..(nRows * nCols - 1)
        IN  /\ Len(out.points) = nRows * nCols
            /\ DOMAIN out.scalars = indexes
            /\ DOMAIN out.lut = indexes
            /\ \A rc \in GridCells(nRows, nCols) :
                  /\ PointsOf(rc) = {rc[1] * nCols + rc[2]}
                  /\ \A i \in PointsOf(rc) :
                        /\ out.scalars[i] = (nRows - 1 - rc[1]) * nCols + rc[2]
                        /\ Shows(out.lut[out.scalars[i]],
                                 calculateCellColor(rc[1], rc[2], drawing.p,
                                                    drawing.setting.infos))
            /\ {out.scalars[i] : i \in indexes} = indexes
            /\ \A i, j \in indexes : out.scalars[i] = out.scalars[j] => i = j

\* a grid of two rows and two columns has been drawn, and its four cells
\* are shown in four different colours
C28_Witness ==
    /\ drawing.op = "drawWithVTK"
    /\ drawing.nRows = 2 /\ drawing.nCols = 2
    /\ Cardinality({drawing.out.lut[i] : i \in 0..3}) = 4
    /\ drawing.out.scalars[0] = 2

----------------------------------------------------------------------------
(* Calls on the same builder *)

\* C29: the toolchain a call selects is the one a builder just constructed
\* with the same preferred compiler selects in the environment of that call,
\* and when that is none the call reports the preferred compiler as not
\* found; an earlier call on the builder makes no difference.
C29_SelectionFromConstruction ==
    [][(calls' = calls + 1 /\ ~SourceMissing(env)) =>
          IF empty(AvailableCompiler(env, AsConstructed))
          THEN lastResult' = NoCompilerResult(env.request, AsConstructed)
          ELSE compilerPath' = AvailableCompiler(env, AsConstructed)]_vars


\* what caller c's call has to return
Expected(c) ==
    [success |-> concurrent.caller[c].exit = 0,
     exitCode |-> concurrent.caller[c].exit,
     sourceFile |-> RequestOf(c).sourceFile,
     outputFile |-> RequestOf(c).outputFile]

\* the stdout text made of the first n lines of caller c's child
RECURSIVE TextOf(_, _)
TextOf(c, n) == IF n = 0 THEN <<>> ELSE TextOf(c, n - 1) \o LineOf(c, n) \o <<"\n">>

\* C30: when two calls run at the same time on one builder for different
\* output files, the process keeps running, and each call returns its own
\* request's sourceFile and outputFile, a command that names them, its own
\* child's exit code with the success that follows from it, and as stdout
\* the lines of its own child and no others.
C30_CallsDoNotInterfere ==
    /\ ~concurrent.crashed
    /\ \A c \in Callers :
          concurrent.caller[c].pc = "returned" =>
              LET r == concurrent.caller[c].returned
              IN  /\ r.sourceFile = Expected(c).sourceFile
                  /\ r.outputFile = Expected(c).outputFile
                  /\ r.exitCode = Expected(c).exitCode
                  /\ r.success = Expected(c).success
                  /\ \E i \in 1..Len(r.compileCommand) :
                        r.compileCommand[i] = T("-o", RequestOf(c).outputFile)
                  /\ \E n \in 0..MaxRaceLines : r.stdout = TextOf(c, n)
                  /\ r.stderr = <<>>

====
